---- MODULE Spec2Model ----
(***************************************************************************)
(* Generation resilience layer of opal-adk: the image fallback loop        *)
(* (generate_image_via_genai_api), the video fallback loop and operation   *)
(* poller (_generate_video_impl / generate_video_via_vertex_ai), the error  *)
(* classifier and its external message (get_opal_adk_error, ChatError,     *)
(* OpalAdkError.external_message), image generation with Gemini            *)
(* (gemini_generate_images) and grounding extraction                       *)
(* (extract_grounding_metadata).  Each has its own specification: Spec,    *)
(* SpecErr, SpecGemini, SpecGrounding.  SpecAspect follows the aspect      *)
(* ratio of a request on its three paths, SpecChat nested ChatErrors and   *)
(* get_error_as_chat_message, SpecLog log_operation_start and              *)
(* log_operation_end on several threads, and SpecPoll the video poll loop  *)
(* under fairness.                                                         *)
(*                                                                         *)
(* Python strings are sequences of tokens, so that concatenation and       *)
(* f-string formatting are sequence concatenation.  None is NoneStr.       *)
(***************************************************************************)
EXTENDS Integers, Sequences, FiniteSets, TLC

VARIABLES
  prod,            \* environment_util.is_prod_environment()
  req,             \* the arguments of the running request
  pc,              \* position of the running request
  fall_backs,      \* candidate chain of the running request
  idx,             \* 1-based index of the candidate the loop is at
  calls,           \* vendor generation / submission calls made so far, in order
  last_exception,  \* image loop: last_exception
  operation,       \* video: the operation handle held
  gets,            \* video: number of client.operations.get calls made
  notDone,         \* video: number of times operation.done was observed false
  result,          \* what the request handed to its caller
  errors,          \* error handling: the exceptions at hand and what
                   \* get_opal_adk_error / external_message gave for each
  gemini_pc,       \* gemini_generate_images: position of the call
  gemini_args,     \* gemini_generate_images: the arguments of the call
  gemini_config,   \* gemini_generate_images: the GenerateContentConfig built
  depth_before,    \* llm_logging: current_depth when the call was made
  gemini_response, \* gemini_generate_images: the response of generate_content
  gemini_result,   \* gemini_generate_images: what the caller got
  current_depth,   \* llm_logging: the calling thread's tracer.current_depth
  operation_start_times, \* llm_logging: keys of _operation_start_times
  grounding_response,    \* grounding: the response examined
  extractions,     \* grounding: the extract_grounding_metadata calls made, each
                   \* with the response it was given and what it gave
  chat_base,       \* chat errors: the exception a caller starts from
  wraps,           \* chat errors: the ChatError constructions made, each on
                   \* the result of the one before
  as_chat_message, \* chat errors: the last get_error_as_chat_message call
  tracers,         \* llm_logging: current_depth of each thread's tracer
  log_pc,          \* llm_logging: position of each thread's request
  log_op,          \* llm_logging: operation name of each thread's request
  start_time_writer, \* llm_logging: for each key of _operation_start_times,
                   \* the thread whose log_operation_start stored its value
  start_time_read  \* llm_logging: for each thread, whose stored value its
                   \* log_operation_end took as start_time

(* The variables of a generation request *)
genvars == <<req, pc, fall_backs, idx, calls, last_exception, operation,
             gets, notDone, result>>

(* The variables of the error-handling functions *)
errvars == <<errors>>

(* The variables of gemini_generate_images and of the logging it does *)
gemvars == <<gemini_pc, gemini_args, gemini_config, depth_before,
             gemini_response, gemini_result, current_depth,
             operation_start_times>>

(* The variables of extract_grounding_metadata and its callers *)
groundvars == <<grounding_response, extractions>>

(* The variables of ChatError and get_error_as_chat_message *)
chatvars == <<chat_base, wraps, as_chat_message>>

(* The variables of requests that log from several threads *)
logvars == <<tracers, log_pc, log_op, start_time_writer, start_time_read>>

(* What a generation request leaves alone *)
elsewhere == <<errvars, gemvars, groundvars, chatvars, logvars>>

vars == <<prod, genvars, elsewhere>>

----------------------------------------------------------------------------
(* Bounds of the exploration *)

MaxPolls == 2

(* The tracer depth a call may start at is 0..MaxDepth *)
MaxDepth == 1

(* extract_grounding_metadata is called at most MaxExtractions times on a  *)
(* response                                                                *)
MaxExtractions == 3

(* A chat error is wrapped at most MaxWraps times                          *)
MaxWraps == 3

(* Requests run on threads 1..MaxThreads                                   *)
MaxThreads == 2

----------------------------------------------------------------------------
(* google.rpc.code_pb2 codes used by the code *)

UNKNOWN == 2
INVALID_ARGUMENT == 3
RESOURCE_EXHAUSTED == 8
INTERNAL == 13

(* An HTTP-style code, as a completed operation's error payload can carry *)
HTTP_BAD_REQUEST == 400

----------------------------------------------------------------------------
(* Strings *)

NoneStr == <<"<None>">>
EmptyStr == <<>>

GENERIC_ERROR_MESSAGE ==
  <<" An unexpected internal error occurred. Please try again.">>

GENERIC_MODEL_ERROR_MESSAGE ==
  <<" An unexpected error occurred while calling the model. Please try again.">>

HIGHER_LOAD_MESSAGE ==
  <<"The system is experiencing higher load than usual. Please try again later.">>

Contains(s, tok) == \E i \in 1..Len(s) : s[i] = tok

----------------------------------------------------------------------------
(* Exceptions.  One record shape for vendor exceptions and OpalAdkError:   *)
(* cls is the class, code the vendor error's code attribute, text is       *)
(* str(e); the remaining fields are those of OpalAdkError.                 *)

Exc(cls, code, text) ==
  [cls |-> cls, code |-> code, text |-> text,
   status_message |-> EmptyStr, error_code |-> 0,
   details |-> EmptyStr, internal_details |-> EmptyStr]

NoExc == Exc("None", 0, EmptyStr)

OpalAdkErrorClasses == {"OpalAdkError", "ChatError"}

IsOpalAdkError(e) == e.cls \in OpalAdkErrorClasses

IsClientError(e) == e.cls = "ClientError"

IsServerError(e) == e.cls = "ServerError"

(* OpalAdkError.__init__ *)
OpalAdkError(logged, status_message, status_code, details, internal_details) ==
  LET idet == IF ~prod THEN logged ELSE internal_details
      lg == IF logged = NoneStr
            THEN IF details # EmptyStr
                 THEN status_message \o <<". Details: ">> \o details
                 ELSE status_message
            ELSE logged
  IN [cls |-> "OpalAdkError", code |-> 0, text |-> lg,
      status_message |-> status_message, error_code |-> status_code,
      details |-> details, internal_details |-> idet]

(* traceback.format_exc() while `handling` is the exception being handled *)
format_exc(handling) ==
  IF handling = NoExc
  THEN <<"NoneType: None">>
  ELSE <<"Traceback (most recent call last): ">> \o handling.text

(* Faulty variant of get_opal_adk_error: an OpalAdkError is wrapped in a   *)
(* new OpalAdkError instead of being returned                              *)
GetOpalAdkErrorRewraps(error, handling) ==
  IF IsOpalAdkError(error)
  THEN OpalAdkError(format_exc(handling), error.status_message,
                    error.error_code, error.details, error.internal_details)
  ELSE IF IsClientError(error)
  THEN IF error.code = RESOURCE_EXHAUSTED
       THEN OpalAdkError(format_exc(handling), HIGHER_LOAD_MESSAGE,
                         RESOURCE_EXHAUSTED, EmptyStr, error.text)
       ELSE OpalAdkError(format_exc(handling), GENERIC_MODEL_ERROR_MESSAGE,
                         INTERNAL, EmptyStr, error.text)
  ELSE IF IsServerError(error)
  THEN OpalAdkError(format_exc(handling), GENERIC_MODEL_ERROR_MESSAGE,
                    INTERNAL, EmptyStr, error.text)
  ELSE OpalAdkError(format_exc(handling), GENERIC_ERROR_MESSAGE, UNKNOWN,
                    EmptyStr, EmptyStr)

(* Faulty variant of get_opal_adk_error: the code of a client error is not *)
(* looked at                                                               *)
GetOpalAdkErrorIgnoresCode(error, handling) ==
  IF IsOpalAdkError(error) THEN error
  ELSE IF IsClientError(error) \/ IsServerError(error)
  THEN OpalAdkError(format_exc(handling), GENERIC_MODEL_ERROR_MESSAGE,
                    INTERNAL, EmptyStr, error.text)
  ELSE OpalAdkError(format_exc(handling), GENERIC_ERROR_MESSAGE, UNKNOWN,
                    EmptyStr, EmptyStr)

(* get_opal_adk_error(error), called while `handling` is being handled *)
get_opal_adk_error(error, handling) ==
  LET full_traceback == format_exc(handling) IN
  IF IsOpalAdkError(error) THEN error
  ELSE IF IsClientError(error)
  THEN IF error.code = RESOURCE_EXHAUSTED
       THEN OpalAdkError(full_traceback, HIGHER_LOAD_MESSAGE,
                         RESOURCE_EXHAUSTED, EmptyStr, error.text)
       ELSE OpalAdkError(full_traceback, GENERIC_MODEL_ERROR_MESSAGE,
                         INTERNAL, EmptyStr, error.text)
  ELSE IF IsServerError(error)
  THEN OpalAdkError(full_traceback, GENERIC_MODEL_ERROR_MESSAGE,
                    INTERNAL, EmptyStr, error.text)
  ELSE OpalAdkError(full_traceback, GENERIC_ERROR_MESSAGE, UNKNOWN,
                    EmptyStr, EmptyStr)

GENERIC_CHAT_BASED_PREFIX == <<"Sorry, I encountered an error. ">>

(* bool(s) of a str or None *)
Truthy(s) == s # NoneStr /\ s # EmptyStr

(* Faulty variant of ChatError: the prefix is put before full_chat_message *)
ChatErrorPrefixesFullMessage(base_error, chat_prefix, full_chat_message, handling) ==
  LET error == get_opal_adk_error(base_error, handling)
      prefix == IF Truthy(chat_prefix) THEN chat_prefix
                ELSE GENERIC_CHAT_BASED_PREFIX
      with_details == IF Truthy(error.details)
                      THEN <<"Details: ">> \o error.details \o <<". ">>
                      ELSE EmptyStr
      chat_message == IF Truthy(full_chat_message)
                      THEN prefix \o full_chat_message
                      ELSE prefix \o with_details
  IN [OpalAdkError(<<"Chat error: ">> \o chat_message, error.status_message,
                   error.error_code, chat_message, error.internal_details)
      EXCEPT !.cls = "ChatError"]

(* Faulty variant of ChatError: a base that is a ChatError already keeps   *)
(* its details, no prefix is put before them again                         *)
ChatErrorGuardsPrefix(base_error, chat_prefix, full_chat_message, handling) ==
  LET error == get_opal_adk_error(base_error, handling)
      prefix == IF Truthy(chat_prefix) THEN chat_prefix
                ELSE GENERIC_CHAT_BASED_PREFIX
      with_details == IF Truthy(error.details)
                      THEN <<"Details: ">> \o error.details \o <<". ">>
                      ELSE EmptyStr
      chat_message == IF Truthy(full_chat_message) THEN full_chat_message
                      ELSE IF error.cls = "ChatError" THEN error.details
                      ELSE prefix \o with_details
  IN [OpalAdkError(<<"Chat error: ">> \o chat_message, error.status_message,
                   error.error_code, chat_message, error.internal_details)
      EXCEPT !.cls = "ChatError"]

(* ChatError.__init__, called while `handling` is being handled *)
ChatError(base_error, chat_prefix, full_chat_message, handling) ==
  LET error == get_opal_adk_error(base_error, handling)
      prefix == IF Truthy(chat_prefix) THEN chat_prefix
                ELSE GENERIC_CHAT_BASED_PREFIX
      with_details == IF Truthy(error.details)
                      THEN <<"Details: ">> \o error.details \o <<". ">>
                      ELSE EmptyStr
      chat_message == IF Truthy(full_chat_message) THEN prefix
                      ELSE prefix \o with_details
      logged_message ==
        <<"Chat error: ">> \o prefix
        \o (IF Truthy(full_chat_message) THEN full_chat_message
            ELSE with_details
                 \o (IF Truthy(error.internal_details) /\ ~prod
                     THEN <<"Internal details: ">> \o error.internal_details
                     ELSE EmptyStr))
  IN [OpalAdkError(logged_message, error.status_message, error.error_code,
                   IF Truthy(full_chat_message) THEN full_chat_message
                   ELSE chat_message,
                   error.internal_details)
      EXCEPT !.cls = "ChatError"]

(* code_pb2.Code: the name of value c is CodeNames[c + 1] *)
CodeNames ==
  <<"OK", "CANCELLED", "UNKNOWN", "INVALID_ARGUMENT", "DEADLINE_EXCEEDED",
    "NOT_FOUND", "ALREADY_EXISTS", "PERMISSION_DENIED", "RESOURCE_EXHAUSTED",
    "FAILED_PRECONDITION", "ABORTED", "OUT_OF_RANGE", "UNIMPLEMENTED",
    "INTERNAL", "UNAVAILABLE", "DATA_LOSS", "UNAUTHENTICATED">>

(* A str in JSON: the text between double quotes *)
Quote(s) == <<"\"">> \o s \o <<"\"">>

(* json.dumps of a dict given as its (key, value) items, values being str *)
RECURSIVE json_items(_)
json_items(items) ==
  IF items = <<>> THEN <<>>
  ELSE Quote(<<Head(items)[1]>>) \o <<": ">> \o Quote(Head(items)[2])
       \o (IF Tail(items) = <<>> THEN <<>> ELSE <<", ">>)
       \o json_items(Tail(items))

json_dumps(items) == <<"{">> \o json_items(items) \o <<"}">>

(* What a call gave: the str returned, or the exception raised *)
Returned(text) == [raised |-> NoExc, text |-> text]

Raised(e) == [raised |-> e, text |-> NoneStr]

NotCalled == [raised |-> NoExc, text |-> NoneStr]

(* str + str; TypeError when the right operand is None *)
StrAdd(left, right) ==
  IF right = NoneStr
  THEN Raised(Exc("TypeError", 0,
                  <<"can only concatenate str (not \"NoneType\") to str">>))
  ELSE Returned(left \o right)

(* get_error_as_chat_message(error), called while `handling` is being      *)
(* handled                                                                 *)
get_error_as_chat_message(error, handling) ==
  LET err == get_opal_adk_error(error, handling)
      formatted_error == StrAdd(err.status_message \o <<"\n">>, err.details)
  IN IF formatted_error.raised # NoExc THEN formatted_error
     ELSE IF ~prod
     THEN StrAdd(err.status_message \o <<"\n">>, err.internal_details)
     ELSE formatted_error

(* A get_error_as_chat_message call: the exception given and what came    *)
(* of it                                                                   *)
ChatMessage(error, out) == [error |-> error, out |-> out]

NoChatMessage == ChatMessage(NoExc, NotCalled)

(* Faulty variant of external_message: internal_details is serialized too *)
ExternalMessageWithInternalDetails(self) ==
  IF self.error_code + 1 \in DOMAIN CodeNames
  THEN Returned(json_dumps(<< <<"code", <<CodeNames[self.error_code + 1]>> >>,
                              <<"message", self.status_message>>,
                              <<"details", self.details>>,
                              <<"internal_details", self.internal_details>> >>))
  ELSE Raised(Exc("ValueError", 0,
                  <<"Enum Code has no name defined for value">>))

(* OpalAdkError.external_message; Code.Name raises ValueError for a value  *)
(* that is not one of the enum's                                           *)
external_message(self) ==
  IF self.error_code + 1 \in DOMAIN CodeNames
  THEN Returned(json_dumps(<< <<"code", <<CodeNames[self.error_code + 1]>> >>,
                              <<"message", self.status_message>>,
                              <<"details", self.details>> >>))
  ELSE Raised(Exc("ValueError", 0,
                  <<"Enum Code has no name defined for value">>))

----------------------------------------------------------------------------
(* Results handed to the caller: nothing yet, a (bytes, mime_type) tuple,  *)
(* or a raised exception.                                                  *)

NoResult == [kind |-> "none", bytes |-> "None", mime |-> "None", err |-> NoExc]

Return(bytes, mime) ==
  [kind |-> "return", bytes |-> bytes, mime |-> mime, err |-> NoExc]

Raise(e) == [kind |-> "raise", bytes |-> "None", mime |-> "None", err |-> e]

----------------------------------------------------------------------------
(* What the vendor may raise from a generation / submission call.          *)
(* api_core: TooManyRequests, ResourceExhausted, RetryError.               *)
(* genai: ServerError, ClientError.  Anything else: ValueError.            *)

VendorExceptions ==
  { Exc("TooManyRequests", 429, <<"429 quota exceeded">>),
    Exc("ResourceExhausted", 429, <<"429 out of capacity">>),
    Exc("RetryError", 0, <<"deadline exceeded while retrying">>),
    Exc("ServerError", 503, <<"503 UNAVAILABLE">>),
    Exc("ClientError", RESOURCE_EXHAUSTED, <<"8 ", "RESOURCE_EXHAUSTED", ". quota">>),
    Exc("ClientError", 429, <<"429 ", "RESOURCE_EXHAUSTED", ". quota">>),
    Exc("ClientError", HTTP_BAD_REQUEST, <<"400 INVALID_ARGUMENT. bad prompt">>),
    Exc("ValueError", 0, <<"backend said ", "RESOURCE_EXHAUSTED">>),
    Exc("ValueError", 0, <<"unexpected keyword argument">>) }

(* RETRIABLE_RESPONSE_ERRORS: the same tuple in both modules *)
RETRIABLE_RESPONSE_ERRORS ==
  {"TooManyRequests", "ResourceExhausted", "RetryError", "ServerError"}

(* 'RESOURCE_EXHAUSTED' in str(e) *)
HasResourceExhaustedText(e) == Contains(e.text, "RESOURCE_EXHAUSTED")

----------------------------------------------------------------------------
(* Models *)

IMAGEN_3 == "imagen-3.0-generate-002"
IMAGEN_3_FAST == "imagen-3.0-fast-generate-001"
VEO_2 == "veo-2.0-generate-001"
VEO_3_FAST == "veo-3.0-fast-generate-preview"
VEO_3 == "veo-3.0-generate-preview"
VEO_3_1 == "veo-3.1-generate-preview"
VEO_3_1_FAST == "veo-3.1-fast-generate-preview"

----------------------------------------------------------------------------
(* Image generation: vertex_generate_image.py *)

(* A types.GeneratedImage: whether it carries image bytes, and its mime type *)
GeneratedImage(has_bytes, bytes, mime) ==
  [has_bytes |-> has_bytes, image_bytes |-> bytes, mime_type |-> mime]

GeneratedImages ==
  { GeneratedImage(TRUE, "img_a", "image/jpeg"),
    GeneratedImage(TRUE, "img_b", "None"),
    GeneratedImage(FALSE, "None", "None") }

NoImagesGenerated ==
  OpalAdkError(NoneStr, <<"No images generated.">>, INTERNAL,
               <<"This may indicate an invalid or policy violating prompt.">>,
               EmptyStr)

(* _image_bytes_from_generated_image: a Return, or a Raise *)
image_bytes_from_generated_image(generated_image) ==
  IF generated_image.has_bytes
  THEN Return(generated_image.image_bytes,
              IF generated_image.mime_type = "None" THEN "image/png"
              ELSE generated_image.mime_type)
  ELSE Raise(NoImagesGenerated)

----------------------------------------------------------------------------
(* Operation handles of the video backend *)

(* operation.error: None, or a dict that may hold 'code' and 'message' *)
ErrorPayload(has_code, code, has_message, message) ==
  [is_none |-> FALSE, has_code |-> has_code, code |-> code,
   has_message |-> has_message, message |-> message]

NoErrorPayload ==
  [is_none |-> TRUE, has_code |-> FALSE, code |-> 0,
   has_message |-> FALSE, message |-> EmptyStr]

(* bool(operation.error): None and the empty dict are falsy *)
ErrorTruthy(error) == ~error.is_none /\ (error.has_code \/ error.has_message)

(* Faulty variant of ErrorGetCode: the payload's code is ignored *)
ErrorGetCodeIgnoresPayload(error, default) == default

(* operation.error.get(key, default) *)
ErrorGetCode(error, default) == IF error.has_code THEN error.code ELSE default

ErrorGetMessage(error, default) ==
  IF error.has_message THEN error.message ELSE default

(* An entry of response.generated_videos; its .video may be None *)
GeneratedVideo(has_video, bytes, mime) ==
  [has_video |-> has_video, video_bytes |-> bytes, mime_type |-> mime]

(* operation.response: None, or generated_videos and                       *)
(* rai_media_filtered_reasons (an absent list is the empty one)            *)
Response(generated_videos, reasons) ==
  [is_none |-> FALSE, generated_videos |-> generated_videos,
   rai_media_filtered_reasons |-> reasons]

NoResponse ==
  [is_none |-> TRUE, generated_videos |-> <<>>,
   rai_media_filtered_reasons |-> <<>>]

(* A handle: ver is the number of the re-fetch that produced it, 0 for the *)
(* handle the submission call returned                                     *)
Operation(ver, done, error, response) ==
  [is_none |-> FALSE, ver |-> ver, done |-> done, error |-> error,
   response |-> response]

NoOperation ==
  [is_none |-> TRUE, ver |-> 0, done |-> FALSE, error |-> NoErrorPayload,
   response |-> NoResponse]

ErrorPayloads ==
  { NoErrorPayload,
    ErrorPayload(FALSE, 0, FALSE, EmptyStr),
    ErrorPayload(TRUE, HTTP_BAD_REQUEST, TRUE, <<"bad prompt">>),
    ErrorPayload(FALSE, 0, TRUE, <<"quota">>),
    ErrorPayload(TRUE, RESOURCE_EXHAUSTED, FALSE, EmptyStr) }

VideoA == GeneratedVideo(TRUE, "vid_a", "video/mp4")
VideoB == GeneratedVideo(TRUE, "vid_b", "video/webm")
VideoNone == GeneratedVideo(FALSE, "None", "None")

FilterReasons == << <<"violence">>, <<"celebrity">> >>

Responses ==
  { NoResponse,
    Response(<<>>, <<>>),
    Response(<<>>, FilterReasons),
    Response(<<VideoNone>>, <<>>),
    Response(<<VideoNone>>, FilterReasons),
    Response(<<VideoNone, VideoA>>, <<>>),
    Response(<<VideoA>>, FilterReasons),
    Response(<<VideoB, VideoA>>, <<>>) }

(* The handles the backend may hand out at fetch number ver: one that is   *)
(* not done yet, or a done one: without an error payload and with any      *)
(* response, or with an error payload and with or without videos           *)
Handles(ver) ==
  { Operation(ver, FALSE, NoErrorPayload, NoResponse) }
  \cup { Operation(ver, TRUE, e, r) :
           e \in {p \in ErrorPayloads : ~ErrorTruthy(p)}, r \in Responses }
  \cup { Operation(ver, TRUE, e, r) :
           e \in {p \in ErrorPayloads : ErrorTruthy(p)},
           r \in {NoResponse, Response(<<VideoB, VideoA>>, <<>>)} }

----------------------------------------------------------------------------
(* Outcome of one vendor call: an exception raised, or the value returned  *)
(* (a list of images from generate_images, a handle from generate_videos   *)
(* or operations.get)                                                      *)

Outcome(raised, images, op) == [raised |-> raised, images |-> images, op |-> op]

ImageOutcomes ==
  { Outcome(e, <<>>, NoOperation) : e \in VendorExceptions }
  \cup { Outcome(NoExc, <<>>, NoOperation) }
  \cup { Outcome(NoExc, <<g>>, NoOperation) : g \in GeneratedImages }
  \cup { Outcome(NoExc, <<GeneratedImage(FALSE, "None", "None"),
                         GeneratedImage(TRUE, "img_a", "image/jpeg")>>,
                 NoOperation) }

SubmitOutcomes ==
  { Outcome(e, <<>>, NoOperation) : e \in VendorExceptions }
  \cup { Outcome(NoExc, <<>>, h) : h \in Handles(0) }

GetOutcomes(ver) ==
  { Outcome(e, <<>>, NoOperation) : e \in VendorExceptions }
  \cup { Outcome(NoExc, <<>>, h) : h \in Handles(ver) }

----------------------------------------------------------------------------
(* generate_image_via_genai_api: one iteration of the loop over            *)
(* model_imagen_3_fallbacks, as what it does next                          *)

Step(next, res, last) == [next |-> next, result |-> res, last |-> last]

(* Faulty variant of ImageExcept: a retriable failure is recorded only    *)
(* when none was recorded before                                           *)
ImageExceptKeepsFirst(e, last) ==
  IF e.cls \in RETRIABLE_RESPONSE_ERRORS \/ HasResourceExhaustedText(e)
  THEN Step("continue", NoResult, IF last = NoExc THEN e ELSE last)
  ELSE Step("raise", Raise(get_opal_adk_error(e, e)), last)

(* Faulty variant of ImageExcept: a non-retriable failure is raised as the *)
(* default OpalAdkError instead of its classification                      *)
ImageExceptRaisesDefault(e, last) ==
  IF e.cls \in RETRIABLE_RESPONSE_ERRORS \/ HasResourceExhaustedText(e)
  THEN Step("continue", NoResult, e)
  ELSE Step("raise",
            Raise(OpalAdkError(NoneStr, GENERIC_ERROR_MESSAGE, UNKNOWN,
                               EmptyStr, EmptyStr)),
            last)

(* The except clauses of the image loop, for an exception e raised in the  *)
(* try body while last_exception is last                                   *)
ImageExcept(e, last) ==
  IF e.cls \in RETRIABLE_RESPONSE_ERRORS
  THEN Step("continue", NoResult, e)
  ELSE IF HasResourceExhaustedText(e)
  THEN Step("continue", NoResult, e)
  ELSE Step("raise", Raise(get_opal_adk_error(e, e)), last)

(* Faulty variant of ImageTry: a non-empty result does not end the loop *)
ImageTryKeepsGoing(out, last) ==
  IF out.raised # NoExc THEN ImageExcept(out.raised, last)
  ELSE Step("continue", NoResult, last)

(* Faulty variant of ImageTry: an empty result clears last_exception *)
ImageTryEmptyForgets(out, last) ==
  IF out.raised # NoExc THEN ImageExcept(out.raised, last)
  ELSE IF out.images # <<>>
  THEN LET r == image_bytes_from_generated_image(out.images[1]) IN
       IF r.kind = "return" THEN Step("return", r, last)
       ELSE ImageExcept(r.err, last)
  ELSE Step("continue", NoResult, NoExc)

(* The try body and its except clauses, for the outcome of generate_images *)
ImageTry(out, last) ==
  IF out.raised # NoExc THEN ImageExcept(out.raised, last)
  ELSE IF out.images # <<>>
  THEN LET r == image_bytes_from_generated_image(out.images[1]) IN
       IF r.kind = "return" THEN Step("return", r, last)
       ELSE ImageExcept(r.err, last)
  ELSE Step("continue", NoResult, last)

(* Faulty variant of ImageExhausted: the generic error is raised without  *)
(* status_code and details                                                 *)
ImageExhaustedBare(last) ==
  IF last # NoExc THEN Raise(get_opal_adk_error(last, NoExc))
  ELSE Raise(OpalAdkError(NoneStr, <<"No images generated.">>, UNKNOWN,
                          EmptyStr, EmptyStr))

(* After the loop: lines 113-121 *)
ImageExhausted(last) ==
  IF last # NoExc THEN Raise(get_opal_adk_error(last, NoExc))
  ELSE Raise(NoImagesGenerated)

model_imagen_3_fallbacks == <<IMAGEN_3, IMAGEN_3_FAST>>

----------------------------------------------------------------------------
(* Video generation: vertex_generate_video.py *)

(* A genai Part: inline_data may be None *)
Part(has_inline, data, mime) ==
  [has_inline |-> has_inline, data |-> data, mime_type |-> mime]

PartA == Part(TRUE, "ref_a", "image/png")
PartB == Part(TRUE, "ref_b", "image/jpeg")
PartText == Part(FALSE, "None", "None")

(* reference_image_parts: None, or a list of parts *)
NoParts == [is_none |-> TRUE, parts |-> <<>>]

Parts(ps) == [is_none |-> FALSE, parts |-> ps]

(* types.Image, or None *)
Image(bytes, mime) == [is_none |-> FALSE, image_bytes |-> bytes, mime_type |-> mime]

NoImage == [is_none |-> TRUE, image_bytes |-> "None", mime_type |-> "None"]

(* (base_image, reference_images); reference_images is None or a list of   *)
(* VideoGenerationReferenceImage, each an Image with reference_type ASSET  *)
ImageConfig(base, refs_none, refs) ==
  [image |-> base, refs_none |-> refs_none, reference_images |-> refs]

(* The list comprehension of lines 51-61 *)
RECURSIVE RefImages(_)
RefImages(ps) ==
  IF ps = <<>> THEN <<>>
  ELSE IF Head(ps).has_inline
  THEN <<Image(Head(ps).data, Head(ps).mime_type)>> \o RefImages(Tail(ps))
  ELSE RefImages(Tail(ps))

(* Faulty variant of get_video_image_config: the configuration is computed *)
(* once, from the model the request prefers, for every candidate           *)
VideoImageConfigOfPreferredModel(reference_image_parts, current_model) ==
  IF reference_image_parts.is_none \/ reference_image_parts.parts = <<>>
  THEN ImageConfig(NoImage, TRUE, <<>>)
  ELSE IF req.model_name \in {VEO_3_1, VEO_3_1_FAST}
  THEN ImageConfig(NoImage, FALSE, RefImages(reference_image_parts.parts))
  ELSE LET first_part == reference_image_parts.parts[1] IN
       IF first_part.has_inline
       THEN ImageConfig(Image(first_part.data, first_part.mime_type), TRUE, <<>>)
       ELSE ImageConfig(NoImage, TRUE, <<>>)

(* _get_video_image_config *)
get_video_image_config(reference_image_parts, current_model) ==
  IF reference_image_parts.is_none \/ reference_image_parts.parts = <<>>
  THEN ImageConfig(NoImage, TRUE, <<>>)
  ELSE IF current_model \in {VEO_3_1, VEO_3_1_FAST}
  THEN ImageConfig(NoImage, FALSE, RefImages(reference_image_parts.parts))
  ELSE LET first_part == reference_image_parts.parts[1] IN
       IF first_part.has_inline
       THEN ImageConfig(Image(first_part.data, first_part.mime_type), TRUE, <<>>)
       ELSE ImageConfig(NoImage, TRUE, <<>>)

(* list(dict.fromkeys(s)): the first occurrence of each element, in order *)
RECURSIVE DedupPreservingOrder(_)
DedupPreservingOrder(s) ==
  IF s = <<>> THEN <<>>
  ELSE LET init == DedupPreservingOrder(SubSeq(s, 1, Len(s) - 1))
           x == s[Len(s)]
       IN IF \E i \in 1..Len(init) : init[i] = x THEN init ELSE Append(init, x)

(* Faulty variant of VideoFallBacks: the chain is not deduplicated *)
VideoFallBacksNotDeduplicated(model_name) == <<model_name, VEO_3, VEO_3_FAST>>

(* fall_backs of _generate_video_impl, lines 75-81 *)
VideoFallBacks(model_name) ==
  DedupPreservingOrder(<<model_name, VEO_3, VEO_3_FAST>>)

FailedToInitiate ==
  OpalAdkError(NoneStr, <<"Failed to initiate video request.">>, INTERNAL,
               <<"Internal error occurred.">>, EmptyStr)

(* Faulty variant of VideoExcept: every failure moves on to the next      *)
(* candidate                                                               *)
VideoExceptAlwaysContinues(e) == Step("continue", NoResult, NoExc)

(* The except clauses of the submission loop, lines 107-133 *)
VideoExcept(e) ==
  IF e.cls \in RETRIABLE_RESPONSE_ERRORS
  THEN Step("continue", NoResult, NoExc)
  ELSE IF HasResourceExhaustedText(e)
  THEN Step("continue", NoResult, NoExc)
  ELSE Step("raise", Raise(FailedToInitiate), NoExc)

(* Faulty variant of VideoExhausted: the error is raised with the default *)
(* status code and message                                                 *)
VideoExhaustedDefault ==
  Raise(OpalAdkError(NoneStr, GENERIC_ERROR_MESSAGE, UNKNOWN,
                     <<"Internal error occurred.">>, EmptyStr))

(* After the loop without a handle: lines 135-140 *)
VideoExhausted == Raise(FailedToInitiate)

(* Lines 149-156: the error raised for a completed operation's error payload *)
OperationError(error) ==
  OpalAdkError(
    NoneStr,
    <<"No videos generated: ">>
      \o ErrorGetMessage(error, <<"Unknown error">>) \o <<".">>,
    ErrorGetCode(error, INTERNAL),
    ErrorGetMessage(error, <<"Unknown error">>),
    EmptyStr)

(* Lines 158-176: the result taken from the response of a completed        *)
(* operation that has no error                                             *)
ResponseResult(response) ==
  LET has_videos == ~response.is_none /\ response.generated_videos # <<>>
      res == IF has_videos THEN response.generated_videos[1] ELSE VideoNone
  IN IF has_videos /\ ~res.has_video
        /\ response.rai_media_filtered_reasons # <<>>
     THEN Raise(OpalAdkError(NoneStr, <<"No videos generated.">>,
                             INVALID_ARGUMENT,
                             response.rai_media_filtered_reasons[1],
                             EmptyStr))
     ELSE IF ~res.has_video
     THEN Raise(OpalAdkError(
            NoneStr, <<"No videos generated by Veo Vertex backend.">>,
            INTERNAL, EmptyStr, EmptyStr))
     ELSE Return(res.video_bytes, res.mime_type)

(* Faulty variant of CheckResponse: a response that carries a video wins    *)
(* over the error payload                                                  *)
CheckResponsePrefersVideos(op) ==
  IF ResponseResult(op.response).kind = "return"
  THEN ResponseResult(op.response)
  ELSE IF ErrorTruthy(op.error) THEN Raise(OperationError(op.error))
  ELSE ResponseResult(op.response)

(* Lines 146-176: the checks on the completed operation *)
CheckResponse(op) ==
  IF ErrorTruthy(op.error) THEN Raise(OperationError(op.error))
  ELSE ResponseResult(op.response)

(* create_vertex_ai_client failing: clients/vertex_ai_client.py lines 36-45 *)
ClientInitError ==
  OpalAdkError(<<"vertex_ai_client: Error initializing genai.Client: ", "e">>,
               <<"Could not initialize genai.Client. Set GOOGLE_CLOUD_PROJECT/LOCATION">>,
               INTERNAL, <<"Set GOOGLE_CLOUD_PROJECT/LOCATION">>, EmptyStr)

----------------------------------------------------------------------------
(* llm_logging: log_operation_start / log_operation_end, as what they do   *)
(* to tracer.current_depth and to the keys of _operation_start_times       *)

log_operation_start_depth(depth) == depth + 1

log_operation_start_times(times, operation_name) == times \cup {operation_name}

log_operation_end_depth(depth) == IF depth - 1 > 0 THEN depth - 1 ELSE 0

log_operation_end_times(times, operation_name) == times \ {operation_name}

(* The threads requests run on *)
Threads == 1..MaxThreads

(* No thread: the writer of a key that is not in _operation_start_times *)
NoThread == 0

(* time.time() at the moment of the call: a start time nobody stored *)
Now == -1

AUDIO_OPERATION == "Generate Audio (TTS)"

(* _operation_start_times[operation_name] = time.time() on thread t: the   *)
(* value of the key is the one t stored                                    *)
log_operation_start_writer(writers, operation_name, t) ==
  [writers EXCEPT ![operation_name] = t]

(* start_time = _operation_start_times.pop(operation_name, time.time()):   *)
(* whose stored value start_time is                                        *)
log_operation_end_start_time(times, writers, operation_name) ==
  IF operation_name \in times THEN writers[operation_name] ELSE Now

log_operation_end_writer(writers, operation_name) ==
  [writers EXCEPT ![operation_name] = NoThread]

----------------------------------------------------------------------------
(* Image generation with Gemini: gemini_generate_image.py *)

GEMINI_OPERATION == "Generate Image (Gemini)"

(* The operation names requests log under *)
OperationNames == {GEMINI_OPERATION, AUDIO_OPERATION}

(* A part of a candidate's content: inline_data may be None, text may be   *)
(* None or a str                                                           *)
ContentPart(has_inline, data, mime, text) ==
  [has_inline |-> has_inline, data |-> data, mime_type |-> mime, text |-> text]

(* candidate.content: None, or a Content with parts *)
Content(parts) == [is_none |-> FALSE, parts |-> parts]

NoContent == [is_none |-> TRUE, parts |-> <<>>]

Candidate(finish_reason, content) ==
  [finish_reason |-> finish_reason, content |-> content]

(* GenerateContentResponse; candidates None is the empty list here *)
GenerateContentResponse(candidates) == [is_none |-> FALSE, candidates |-> candidates]

NoGenerateContentResponse == [is_none |-> TRUE, candidates |-> <<>>]

(* What gemini_generate_images hands to its caller: nothing yet, the list  *)
(* of (bytes, mime_type) tuples, or a raised exception                     *)
NoGeminiResult == [kind |-> "none", images |-> <<>>, err |-> NoExc]

GeminiReturn(images) == [kind |-> "return", images |-> images, err |-> NoExc]

GeminiRaise(e) == [kind |-> "raise", images |-> <<>>, err |-> e]

(* The result of a stretch of gemini_generate_images, and whether          *)
(* log_operation_end was called on the way                                 *)
GeminiStep(res, ended) == [result |-> res, ended |-> ended]

RECITATION_MESSAGE == <<"content may violate policy">>

(* gemini_utils.validate_candidate_recitation: the exception it raises,    *)
(* NoExc when it returns                                                   *)
validate_candidate_recitation(resp) ==
  IF \E k \in DOMAIN resp.candidates :
       resp.candidates[k].finish_reason = "RECITATION"
  THEN OpalAdkError(NoneStr, RECITATION_MESSAGE, INTERNAL, EmptyStr, EmptyStr)
  ELSE NoExc

(* The loop of lines 85-89: image_parts and text_parts *)
RECURSIVE image_parts_of(_)
image_parts_of(parts) ==
  IF parts = <<>> THEN <<>>
  ELSE (IF Head(parts).has_inline
        THEN << <<Head(parts).data, Head(parts).mime_type>> >> ELSE <<>>)
       \o image_parts_of(Tail(parts))

RECURSIVE text_parts_of(_)
text_parts_of(parts) ==
  IF parts = <<>> THEN <<>>
  ELSE (IF Truthy(Head(parts).text) THEN <<Head(parts).text>> ELSE <<>>)
       \o text_parts_of(Tail(parts))

(* ' '.join(texts) *)
RECURSIVE Join(_)
Join(texts) ==
  IF texts = <<>> THEN EmptyStr
  ELSE IF Len(texts) = 1 THEN texts[1]
  ELSE texts[1] \o <<" ">> \o Join(Tail(texts))

(* Lines 91-103: the error raised when no part carries inline data *)
NoGeminiImages(text_parts) ==
  LET details == IF text_parts # <<>>
                 THEN <<"Gemini returned the following text instead of image(s): ">>
                      \o Join(text_parts)
                 ELSE EmptyStr
  IN OpalAdkError(NoneStr, <<"No images generated.">>, INTERNAL, details,
                  <<"gemini_generate_image: ">> \o details)

(* Faulty variant of gemini_response_result: the response is not validated *)
(* for recitation                                                          *)
GeminiResponseResultSkipsRecitation(resp) ==
  IF resp.candidates = <<>>
  THEN GeminiStep(GeminiRaise(OpalAdkError(
         NoneStr, <<"No candidates returned from Gemini API.">>, INTERNAL,
         EmptyStr, EmptyStr)), TRUE)
  ELSE LET content == resp.candidates[1].content IN
       IF content.is_none \/ content.parts = <<>>
       THEN GeminiStep(GeminiRaise(OpalAdkError(
              NoneStr, <<"No content parts returned from Gemini API.">>,
              INTERNAL, EmptyStr, EmptyStr)), TRUE)
       ELSE IF image_parts_of(content.parts) = <<>>
       THEN GeminiStep(GeminiRaise(NoGeminiImages(text_parts_of(content.parts))),
                       TRUE)
       ELSE GeminiStep(GeminiReturn(image_parts_of(content.parts)), TRUE)

(* Lines 67-106: what gemini_generate_images does with the response of     *)
(* generate_content                                                        *)
gemini_response_result(resp) ==
  IF resp.candidates = <<>>
  THEN GeminiStep(GeminiRaise(OpalAdkError(
         NoneStr, <<"No candidates returned from Gemini API.">>, INTERNAL,
         EmptyStr, EmptyStr)), TRUE)
  ELSE LET content == resp.candidates[1].content IN
       IF content.is_none \/ content.parts = <<>>
       THEN GeminiStep(GeminiRaise(OpalAdkError(
              NoneStr, <<"No content parts returned from Gemini API.">>,
              INTERNAL, EmptyStr, EmptyStr)), TRUE)
       ELSE IF validate_candidate_recitation(resp) # NoExc
       THEN GeminiStep(GeminiRaise(validate_candidate_recitation(resp)), FALSE)
       ELSE IF image_parts_of(content.parts) = <<>>
       THEN GeminiStep(GeminiRaise(NoGeminiImages(text_parts_of(content.parts))),
                       TRUE)
       ELSE GeminiStep(GeminiReturn(image_parts_of(content.parts)), TRUE)

(* Lines 62-65: the except clause around generate_content *)
gemini_except(e) == GeminiStep(GeminiRaise(get_opal_adk_error(e, e)), TRUE)

----------------------------------------------------------------------------
(* Grounding: gemini_utils.extract_grounding_metadata *)

(* A grounding chunk: .web may be None *)
GroundingChunk(has_web, title, uri) ==
  [has_web |-> has_web, title |-> title, uri |-> uri]

(* candidate.grounding_metadata: None, or web_search_queries and           *)
(* grounding_chunks (None is the empty list here)                          *)
GroundingMetadata(web_search_queries, grounding_chunks) ==
  [is_none |-> FALSE, web_search_queries |-> web_search_queries,
   grounding_chunks |-> grounding_chunks]

NoGroundingMetadata ==
  [is_none |-> TRUE, web_search_queries |-> <<>>, grounding_chunks |-> <<>>]

(* A response as extract_grounding_metadata reads it: the                  *)
(* grounding_metadata of each candidate                                    *)
GroundedResponse(metadatas) == [candidates |-> metadatas]

(* types.Content(parts=[Part(text=text)]) *)
TextContent(text) == Content(<<ContentPart(FALSE, "None", "None", text)>>)

(* ', '.join(queries) *)
RECURSIVE JoinComma(_)
JoinComma(queries) ==
  IF queries = <<>> THEN EmptyStr
  ELSE IF Len(queries) = 1 THEN <<queries[1]>>
  ELSE <<queries[1], ", ">> \o JoinComma(Tail(queries))

(* The loop of lines 54-60 *)
RECURSIVE SourceLines(_)
SourceLines(chunks) ==
  IF chunks = <<>> THEN EmptyStr
  ELSE (IF Head(chunks).has_web
        THEN <<Head(chunks).title, ": ", Head(chunks).uri, "\n">>
        ELSE EmptyStr)
       \o SourceLines(Tail(chunks))

(* What a call of extract_grounding_metadata gives: the exception raised   *)
(* or the list returned, and the response as the call leaves it            *)
Extraction(raised, res, resp) ==
  [raised |-> raised, result |-> res, response |-> resp]

(* Faulty variant of extract_grounding_metadata: the result list is shared *)
(* by all calls, so a call returns what the calls before it appended too   *)
ExtractGroundingMetadataSharedResult(resp) ==
  LET before == IF extractions = <<>> THEN <<>>
                ELSE extractions[Len(extractions)].result
      candidate == resp.candidates[1]
  IN IF resp.candidates = <<>>
     THEN Extraction(Exc("IndexError", 0, <<"list index out of range">>),
                     <<>>, resp)
     ELSE Extraction(NoExc,
                     before \o <<TextContent(<<"\n\nSources:\n">>
                                   \o SourceLines(candidate.grounding_chunks))>>,
                     resp)

(* extract_grounding_metadata *)
extract_grounding_metadata(resp) ==
  IF resp.candidates = <<>>
  THEN Extraction(Exc("IndexError", 0, <<"list index out of range">>),
                  <<>>, resp)
  ELSE LET candidate == resp.candidates[1] IN
       IF candidate.is_none THEN Extraction(NoExc, <<>>, resp)
       ELSE Extraction(
              NoExc,
              (IF candidate.web_search_queries # <<>>
               THEN <<TextContent(<<"\n\n\nRelated Google Search queries: ">>
                                  \o JoinComma(candidate.web_search_queries))>>
               ELSE <<>>)
              \o (IF candidate.grounding_chunks # <<>>
                  THEN <<TextContent(<<"\n\nSources:\n">>
                                     \o SourceLines(candidate.grounding_chunks))>>
                  ELSE <<>>),
              resp)

----------------------------------------------------------------------------
(* Aspect ratios: image_types.AspectRatio and what the request paths make  *)
(* of the member they are given                                            *)

RATIO_16_9 == "RATIO_16_9"
RATIO_1_1 == "RATIO_1_1"
RATIO_3_4 == "RATIO_3_4"
RATIO_4_3 == "RATIO_4_3"
RATIO_9_16 == "RATIO_9_16"

AspectRatio == {RATIO_16_9, RATIO_1_1, RATIO_3_4, RATIO_4_3, RATIO_9_16}

(* aspect_ratio.value *)
AspectRatioValue(aspect_ratio) ==
  CASE aspect_ratio = RATIO_16_9 -> "16:9"
    [] aspect_ratio = RATIO_1_1 -> "1:1"
    [] aspect_ratio = RATIO_3_4 -> "3:4"
    [] aspect_ratio = RATIO_4_3 -> "4:3"
    [] aspect_ratio = RATIO_9_16 -> "9:16"

(* generate_video_via_vertex_ai, lines 203-207: the aspect ratio its       *)
(* _generate_video_impl is given                                           *)
video_aspect_ratio(aspect_ratio) ==
  IF aspect_ratio \notin {RATIO_16_9, RATIO_9_16} THEN RATIO_16_9
  ELSE aspect_ratio

(* The arguments of gemini_generate_images the model follows *)
GeminiArgs(aspect_ratio) == [aspect_ratio |-> aspect_ratio]

NoGeminiArgs == GeminiArgs("None")

(* The GenerateContentConfig of lines 42-48: its image_config.aspect_ratio *)
GenerateContentConfig(aspect_ratio) == [aspect_ratio |-> aspect_ratio]

NoGeminiConfig == GenerateContentConfig("None")

----------------------------------------------------------------------------
(* The state machine: one request, from the call to its return or raise *)

Request(kind, model_name, parts, aspect_ratio) ==
  [kind |-> kind, model_name |-> model_name, reference_image_parts |-> parts,
   aspect_ratio |-> aspect_ratio]

NoRequest == Request("none", "None", NoParts, "None")

(* One vendor generation / submission call: the model it went to, the      *)
(* aspect_ratio and the image configuration of its config, and its outcome *)
Call(model, aspect_ratio, cfg, out) ==
  [model |-> model, aspect_ratio |-> aspect_ratio, cfg |-> cfg, out |-> out]

ModelNames == {VEO_2, VEO_3, VEO_3_FAST, VEO_3_1, VEO_3_1_FAST}

ReferenceImageParts ==
  { NoParts, Parts(<<>>), Parts(<<PartText, PartA>>),
    Parts(<<PartA, PartText, PartB>>) }

(* No chat error is being built *)
ChatIdle ==
  /\ chat_base = NoExc
  /\ wraps = <<>>
  /\ as_chat_message = NoChatMessage

(* No thread is logging *)
LogIdle ==
  /\ tracers = [t \in Threads |-> 0]
  /\ log_pc = [t \in Threads |-> "idle"]
  /\ log_op = [t \in Threads |-> "None"]
  /\ start_time_writer = [name \in OperationNames |-> NoThread]
  /\ start_time_read = [t \in Threads |-> NoThread]

Init ==
  /\ prod \in BOOLEAN
  /\ req = NoRequest
  /\ pc = "idle"
  /\ fall_backs = <<>>
  /\ idx = 0
  /\ calls = <<>>
  /\ last_exception = NoExc
  /\ operation = NoOperation
  /\ gets = 0
  /\ notDone = 0
  /\ result = NoResult
  /\ errors = <<>>
  /\ gemini_pc = "idle"
  /\ gemini_args = NoGeminiArgs
  /\ gemini_config = NoGeminiConfig
  /\ depth_before = 0
  /\ gemini_response = NoGenerateContentResponse
  /\ gemini_result = NoGeminiResult
  /\ current_depth = 0
  /\ operation_start_times = {}
  /\ grounding_response = GroundedResponse(<<>>)
  /\ extractions = <<>>
  /\ ChatIdle
  /\ LogIdle

(* generate_image_via_genai_api up to the loop: lines 64-73 *)
ImageBegin(aspect_ratio, client_ok) ==
  /\ pc = "idle"
  /\ req' = Request("image", "None", NoParts, aspect_ratio)
  /\ last_exception' = NoExc
  /\ fall_backs' = model_imagen_3_fallbacks
  /\ IF client_ok
     THEN pc' = "image_loop" /\ idx' = 1 /\ result' = result
     ELSE pc' = "done" /\ idx' = 0 /\ result' = Raise(ClientInitError)
  /\ UNCHANGED <<prod, calls, operation, gets, notDone>>
  /\ UNCHANGED elsewhere

(* One iteration of the loop of lines 75-111 on the vendor's outcome out,  *)
(* and lines 113-121 when it was the last one                              *)
ImageAttempt(out) ==
  /\ pc = "image_loop"
  /\ LET st == ImageTry(out, last_exception) IN
       /\ calls' = Append(calls, Call(fall_backs[idx],
                                     AspectRatioValue(req.aspect_ratio),
                                     ImageConfig(NoImage, TRUE, <<>>), out))
       /\ last_exception' = st.last
       /\ IF st.next = "continue"
          THEN IF idx < Len(fall_backs)
               THEN idx' = idx + 1 /\ pc' = pc /\ result' = result
               ELSE idx' = idx /\ pc' = "done" /\ result' = ImageExhausted(st.last)
          ELSE idx' = idx /\ pc' = "done" /\ result' = st.result
  /\ UNCHANGED <<prod, req, fall_backs, operation, gets, notDone>>
  /\ UNCHANGED elsewhere

(* generate_video_via_vertex_ai and _generate_video_impl up to the loop:   *)
(* lines 202-220 and 75-84                                                 *)
VideoBegin(model_name, parts, aspect_ratio, client_ok) ==
  /\ pc = "idle"
  /\ LET name == IF model_name = "None" THEN VEO_3_FAST ELSE model_name IN
       /\ req' = Request("video", name, parts, aspect_ratio)
       /\ fall_backs' = VideoFallBacks(name)
  /\ operation' = NoOperation
  /\ IF client_ok
     THEN pc' = "video_loop" /\ idx' = 1 /\ result' = result
     ELSE pc' = "done" /\ idx' = 0 /\ result' = Raise(ClientInitError)
  /\ UNCHANGED <<prod, calls, last_exception, gets, notDone>>
  /\ UNCHANGED elsewhere

(* One iteration of the loop of lines 86-133 on the vendor's outcome out,  *)
(* and lines 135-140 when it was the last one                              *)
VideoSubmit(out) ==
  /\ pc = "video_loop"
  /\ LET current_model == fall_backs[idx]
         cfg == get_video_image_config(req.reference_image_parts, current_model)
         st == IF out.raised = NoExc THEN Step("break", NoResult, NoExc)
               ELSE VideoExcept(out.raised)
         aspect_ratio == video_aspect_ratio(req.aspect_ratio)
     IN /\ calls' = Append(calls, Call(current_model,
                                       AspectRatioValue(aspect_ratio), cfg, out))
        /\ IF st.next = "break"
           THEN operation' = out.op /\ idx' = idx /\ pc' = "video_poll"
                /\ result' = result
           ELSE IF st.next = "continue"
           THEN /\ operation' = operation
                /\ IF idx < Len(fall_backs)
                   THEN idx' = idx + 1 /\ pc' = pc /\ result' = result
                   ELSE idx' = idx /\ pc' = "done" /\ result' = VideoExhausted
           ELSE operation' = operation /\ idx' = idx /\ pc' = "done"
                /\ result' = st.result
  /\ UNCHANGED <<prod, req, fall_backs, last_exception, gets, notDone>>
  /\ UNCHANGED elsewhere

(* Faulty variant of PollTest: the loop gives up after one re-fetch *)
PollTestGivesUp(op) ==
  IF op.done \/ op.ver >= 1 THEN "video_check" ELSE "video_sleep"

(* Faulty variant of PollTest: the loop is left whatever done says *)
PollTestLeavesLoop(op) == "video_check"

(* The loop test of line 142 *)
PollTest(op) == IF op.done THEN "video_check" ELSE "video_sleep"

VideoPollTest ==
  /\ pc = "video_poll"
  /\ pc' = PollTest(operation)
  /\ notDone' = IF operation.done THEN notDone ELSE notDone + 1
  /\ UNCHANGED <<prod, req, fall_backs, idx, calls, last_exception, operation,
                 gets, result>>
  /\ UNCHANGED elsewhere

(* Lines 143-144: sleep, then client.operations.get; an exception of the   *)
(* call leaves _generate_video_impl and is re-raised by line 225           *)
VideoRefetch(out) ==
  /\ pc = "video_sleep"
  /\ gets < MaxPolls
  /\ gets' = gets + 1
  /\ IF out.raised = NoExc
     THEN operation' = out.op /\ pc' = "video_poll" /\ result' = result
     ELSE operation' = operation /\ pc' = "done" /\ result' = Raise(out.raised)
  /\ UNCHANGED <<prod, req, fall_backs, idx, calls, last_exception, notDone>>
  /\ UNCHANGED elsewhere

(* Lines 146-176, and the return of lines 221-222 *)
VideoComplete ==
  /\ pc = "video_check"
  /\ result' = CheckResponse(operation)
  /\ pc' = "done"
  /\ UNCHANGED <<prod, req, fall_backs, idx, calls, last_exception, operation,
                 gets, notDone>>
  /\ UNCHANGED elsewhere

Next ==
  \/ \E client_ok \in BOOLEAN : ImageBegin(RATIO_1_1, client_ok)
  \/ \E out \in ImageOutcomes : ImageAttempt(out)
  \/ \E model_name \in ModelNames \cup {"None"}, parts \in ReferenceImageParts,
        client_ok \in BOOLEAN :
          VideoBegin(model_name, parts, RATIO_16_9, client_ok)
  \/ \E out \in SubmitOutcomes : VideoSubmit(out)
  \/ VideoPollTest
  \/ \E out \in GetOutcomes(gets + 1) : VideoRefetch(out)
  \/ VideoComplete

Spec == Init /\ [][Next]_vars

----------------------------------------------------------------------------
(* Error handling on its own: two exceptions of any kind are at hand; each *)
(* may be classified, classified again, and asked for its external message *)

(* No generation request is running *)
GenerationIdle ==
  /\ req = NoRequest
  /\ pc = "idle"
  /\ fall_backs = <<>>
  /\ idx = 0
  /\ calls = <<>>
  /\ last_exception = NoExc
  /\ operation = NoOperation
  /\ gets = 0
  /\ notDone = 0
  /\ result = NoResult

(* An exception at hand: the object, get_opal_adk_error of it,             *)
(* get_opal_adk_error of that result, and external_message() of the        *)
(* classified error; NoExc / NotCalled while the call was not made         *)
Entry(error) ==
  [error |-> error, classified |-> NoExc, reclassified |-> NoExc,
   external |-> NotCalled]

(* OpalAdkErrors as the code base constructs them: with and without a      *)
(* logged message, details and internal details, and with a code that is   *)
(* or is not one of code_pb2                                               *)
OpalAdkErrors ==
  { OpalAdkError(l, m, c, d, i) :
      l \in {NoneStr, <<"Traceback (most recent call last): ", "quota table q7">>},
      m \in {GENERIC_ERROR_MESSAGE, <<"No videos generated.">>},
      c \in {INVALID_ARGUMENT, HTTP_BAD_REQUEST},
      d \in {EmptyStr, <<"violence">>},
      i \in {EmptyStr, <<"vendor said: ", "shard 12 overloaded">>} }

ChatErrors ==
  { ChatError(Exc("ValueError", 0, <<"unexpected keyword argument">>),
              NoneStr, NoneStr, NoExc),
    ChatError(OpalAdkError(NoneStr, <<"No videos generated.">>,
                           INVALID_ARGUMENT, <<"violence">>, EmptyStr),
              <<"I could not make the video. ">>, NoneStr, NoExc),
    ChatError(OpalAdkError(NoneStr, <<"No videos generated.">>,
                           INVALID_ARGUMENT, <<"violence">>, EmptyStr),
              NoneStr, <<"Please rephrase the request.">>, NoExc),
    ChatError(ChatError(OpalAdkError(NoneStr, <<"No videos generated.">>,
                                     INVALID_ARGUMENT, <<"violence">>, EmptyStr),
                        NoneStr, NoneStr, NoExc),
              NoneStr, NoneStr, NoExc) }

Exceptions == VendorExceptions \cup OpalAdkErrors \cup ChatErrors

GeminiIdle ==
  /\ gemini_pc = "idle"
  /\ gemini_args = NoGeminiArgs
  /\ gemini_config = NoGeminiConfig
  /\ depth_before = 0
  /\ gemini_response = NoGenerateContentResponse
  /\ gemini_result = NoGeminiResult
  /\ current_depth = 0
  /\ operation_start_times = {}

GroundingIdle ==
  /\ grounding_response = GroundedResponse(<<>>)
  /\ extractions = <<>>

InitErr ==
  /\ prod \in BOOLEAN
  /\ GenerationIdle
  /\ GeminiIdle
  /\ GroundingIdle
  /\ ChatIdle
  /\ LogIdle
  /\ errors \in { <<Entry(a), Entry(b)>> : a \in Exceptions, b \in Exceptions }

(* err = get_opal_adk_error(e), inside or outside the handler of e *)
Classify(i, in_handler) ==
  /\ errors[i].classified = NoExc
  /\ errors' = [errors EXCEPT ![i].classified =
                  get_opal_adk_error(errors[i].error,
                                     IF in_handler THEN errors[i].error ELSE NoExc)]
  /\ UNCHANGED <<prod, genvars, gemvars, groundvars, chatvars, logvars>>

(* get_opal_adk_error(err) of an error that get_opal_adk_error returned *)
Reclassify(i, in_handler) ==
  /\ errors[i].classified # NoExc
  /\ errors[i].reclassified = NoExc
  /\ errors' = [errors EXCEPT ![i].reclassified =
                  get_opal_adk_error(errors[i].classified,
                                     IF in_handler THEN errors[i].error ELSE NoExc)]
  /\ UNCHANGED <<prod, genvars, gemvars, groundvars, chatvars, logvars>>

(* err.external_message() *)
ExternalMessage(i) ==
  /\ errors[i].classified # NoExc
  /\ errors[i].external = NotCalled
  /\ errors' = [errors EXCEPT ![i].external =
                  external_message(errors[i].classified)]
  /\ UNCHANGED <<prod, genvars, gemvars, groundvars, chatvars, logvars>>

NextErr ==
  \/ \E i \in DOMAIN errors, in_handler \in BOOLEAN : Classify(i, in_handler)
  \/ \E i \in DOMAIN errors, in_handler \in BOOLEAN : Reclassify(i, in_handler)
  \/ \E i \in DOMAIN errors : ExternalMessage(i)

SpecErr == InitErr /\ [][NextErr]_vars

----------------------------------------------------------------------------
(* gemini_generate_images: one call, from log_operation_start to its       *)
(* return or raise                                                         *)

TextOnly == ContentPart(FALSE, "None", "None", <<"I cannot generate an image.">>)
TextMore == ContentPart(FALSE, "None", "None", <<"Try another prompt.">>)
ImagePng == ContentPart(TRUE, "png_bytes", "image/png", NoneStr)
ImageJpeg == ContentPart(TRUE, "jpeg_bytes", "image/jpeg", <<"Here is your image.">>)
Blank == ContentPart(FALSE, "None", "None", EmptyStr)

Contents ==
  { NoContent, Content(<<>>), Content(<<Blank>>), Content(<<TextOnly>>),
    Content(<<TextOnly, TextMore>>), Content(<<ImagePng>>),
    Content(<<TextOnly, ImagePng>>), Content(<<ImagePng, ImageJpeg>>) }

Candidates == { Candidate(f, c) : f \in {"STOP", "RECITATION"}, c \in Contents }

GenerateContentResponses ==
  { GenerateContentResponse(<<>>) }
  \cup { GenerateContentResponse(<<c>>) : c \in Candidates }
  \cup { GenerateContentResponse(<<c, d>>) :
           c \in Candidates,
           d \in { Candidate("STOP", Content(<<ImagePng>>)),
                   Candidate("RECITATION", Content(<<TextOnly>>)) } }

(* Outcome of generate_content: an exception raised, or the response *)
GeminiOutcome(raised, resp) == [raised |-> raised, response |-> resp]

GeminiOutcomes ==
  { GeminiOutcome(e, NoGenerateContentResponse) : e \in VendorExceptions }
  \cup { GeminiOutcome(NoExc, r) : r \in GenerateContentResponses }

InitGemini ==
  /\ prod \in BOOLEAN
  /\ GenerationIdle
  /\ errors = <<>>
  /\ gemini_pc = "idle"
  /\ gemini_args = NoGeminiArgs
  /\ gemini_config = NoGeminiConfig
  /\ depth_before = 0
  /\ gemini_response = NoGenerateContentResponse
  /\ gemini_result = NoGeminiResult
  /\ current_depth \in 0..MaxDepth
  /\ operation_start_times = {}
  /\ GroundingIdle
  /\ ChatIdle
  /\ LogIdle

(* Lines 36-50: log_operation_start, the config, create_vertex_ai_client *)
GeminiBegin(aspect_ratio, client_ok) ==
  /\ gemini_pc = "idle"
  /\ gemini_args' = GeminiArgs(aspect_ratio)
  /\ depth_before' = current_depth
  /\ gemini_config' = GenerateContentConfig(AspectRatioValue(aspect_ratio))
  /\ current_depth' = log_operation_start_depth(current_depth)
  /\ operation_start_times' =
       log_operation_start_times(operation_start_times, GEMINI_OPERATION)
  /\ IF client_ok
     THEN gemini_pc' = "generate_content" /\ gemini_result' = gemini_result
     ELSE gemini_pc' = "done" /\ gemini_result' = GeminiRaise(ClientInitError)
  /\ UNCHANGED <<prod, genvars, errvars, groundvars, chatvars, logvars,
                 gemini_response>>

(* Lines 52-106 on the outcome out of generate_content *)
GeminiRespond(out) ==
  /\ gemini_pc = "generate_content"
  /\ LET st == IF out.raised # NoExc THEN gemini_except(out.raised)
               ELSE gemini_response_result(out.response)
     IN /\ gemini_result' = st.result
        /\ current_depth' = IF st.ended
                            THEN log_operation_end_depth(current_depth)
                            ELSE current_depth
        /\ operation_start_times' =
             IF st.ended
             THEN log_operation_end_times(operation_start_times, GEMINI_OPERATION)
             ELSE operation_start_times
  /\ gemini_response' = out.response
  /\ gemini_pc' = "done"
  /\ UNCHANGED <<prod, genvars, errvars, groundvars, chatvars, logvars,
                 gemini_args,
                 gemini_config, depth_before>>

NextGemini ==
  \/ \E aspect_ratio \in AspectRatio, client_ok \in BOOLEAN :
        GeminiBegin(aspect_ratio, client_ok)
  \/ \E out \in GeminiOutcomes : GeminiRespond(out)

SpecGemini == InitGemini /\ [][NextGemini]_vars

----------------------------------------------------------------------------
(* The aspect ratio of a request: one request of any of the three paths,   *)
(* given any member of AspectRatio                                         *)

InitAspect ==
  /\ prod \in BOOLEAN
  /\ GenerationIdle
  /\ errors = <<>>
  /\ GeminiIdle
  /\ GroundingIdle
  /\ ChatIdle
  /\ LogIdle

NextAspect ==
  \/ /\ gemini_pc = "idle"
     /\ \E aspect_ratio \in AspectRatio, client_ok \in BOOLEAN :
          ImageBegin(aspect_ratio, client_ok)
  \/ \E out \in ImageOutcomes : ImageAttempt(out)
  \/ /\ gemini_pc = "idle"
     /\ \E aspect_ratio \in AspectRatio, client_ok \in BOOLEAN :
          VideoBegin("None", NoParts, aspect_ratio, client_ok)
  \/ \E out \in SubmitOutcomes : VideoSubmit(out)
  \/ VideoPollTest
  \/ \E out \in GetOutcomes(gets + 1) : VideoRefetch(out)
  \/ VideoComplete
  \/ /\ pc = "idle"
     /\ \E aspect_ratio \in AspectRatio, client_ok \in BOOLEAN :
          GeminiBegin(aspect_ratio, client_ok)
  \/ \E out \in GeminiOutcomes : GeminiRespond(out)

SpecAspect == InitAspect /\ [][NextAspect]_vars

----------------------------------------------------------------------------
(* Chat errors: an exception of any kind is wrapped in a ChatError, the    *)
(* ChatError in another, and so on; the outermost error at hand may be     *)
(* turned into a chat message                                              *)

ChatPrefixes == {NoneStr, EmptyStr, <<"prefix: ">>}

FullChatMessages == {NoneStr, <<"full_msg">>}

(* One ChatError(base_error, chat_prefix, full_chat_message) construction  *)
(* and the error it made                                                   *)
WrapOf(base_error, chat_prefix, full_chat_message, error) ==
  [base_error |-> base_error, chat_prefix |-> chat_prefix,
   full_chat_message |-> full_chat_message, error |-> error]

(* The error a caller holds: the last ChatError made, else the exception   *)
(* it started from                                                         *)
Outermost == IF wraps = <<>> THEN chat_base ELSE wraps[Len(wraps)].error

InitChat ==
  /\ prod \in BOOLEAN
  /\ GenerationIdle
  /\ errors = <<>>
  /\ GeminiIdle
  /\ GroundingIdle
  /\ LogIdle
  /\ chat_base \in Exceptions
  /\ wraps = <<>>
  /\ as_chat_message = NoChatMessage

(* ChatError(e, chat_prefix, full_chat_message) on the error at hand,      *)
(* inside or outside the handler of e                                      *)
Wrap(chat_prefix, full_chat_message, in_handler) ==
  /\ Len(wraps) < MaxWraps
  /\ LET e == Outermost
         handling == IF in_handler THEN e ELSE NoExc
     IN wraps' = Append(wraps,
                        WrapOf(e, chat_prefix, full_chat_message,
                               ChatError(e, chat_prefix, full_chat_message,
                                         handling)))
  /\ UNCHANGED <<prod, genvars, errvars, gemvars, groundvars, logvars,
                 chat_base, as_chat_message>>

(* get_error_as_chat_message(e) on the error at hand *)
AsChatMessage(in_handler) ==
  /\ LET e == Outermost
         handling == IF in_handler THEN e ELSE NoExc
     IN as_chat_message' =
          ChatMessage(e, get_error_as_chat_message(e, handling))
  /\ UNCHANGED <<prod, genvars, errvars, gemvars, groundvars, logvars,
                 chat_base, wraps>>

NextChat ==
  \/ \E chat_prefix \in ChatPrefixes, full_chat_message \in FullChatMessages,
        in_handler \in BOOLEAN :
          Wrap(chat_prefix, full_chat_message, in_handler)
  \/ \E in_handler \in BOOLEAN : AsChatMessage(in_handler)

SpecChat == InitChat /\ [][NextChat]_vars

----------------------------------------------------------------------------
(* Logging from several threads: each thread runs one request that calls   *)
(* log_operation_start(name) and later log_operation_end(name); the        *)
(* tracer is the thread's own, _operation_start_times is the module's      *)

InitLog ==
  /\ prod \in BOOLEAN
  /\ GenerationIdle
  /\ errors = <<>>
  /\ GeminiIdle
  /\ GroundingIdle
  /\ ChatIdle
  /\ tracers \in [Threads -> 0..MaxDepth]
  /\ log_pc = [t \in Threads |-> "idle"]
  /\ log_op = [t \in Threads |-> "None"]
  /\ start_time_writer = [name \in OperationNames |-> NoThread]
  /\ start_time_read = [t \in Threads |-> NoThread]

(* log_operation_start(operation_name) on thread t *)
LogStart(t, operation_name) ==
  /\ log_pc[t] = "idle"
  /\ log_pc' = [log_pc EXCEPT ![t] = "running"]
  /\ log_op' = [log_op EXCEPT ![t] = operation_name]
  /\ operation_start_times' =
       log_operation_start_times(operation_start_times, operation_name)
  /\ start_time_writer' =
       log_operation_start_writer(start_time_writer, operation_name, t)
  /\ tracers' = [tracers EXCEPT ![t] = log_operation_start_depth(tracers[t])]
  /\ UNCHANGED <<prod, genvars, errvars, groundvars, chatvars,
                 gemini_pc, gemini_args, gemini_config, depth_before,
                 gemini_response, gemini_result, current_depth,
                 start_time_read>>

(* log_operation_end(operation_name) on thread t *)
LogEnd(t) ==
  /\ log_pc[t] = "running"
  /\ log_pc' = [log_pc EXCEPT ![t] = "done"]
  /\ tracers' = [tracers EXCEPT ![t] = log_operation_end_depth(tracers[t])]
  /\ start_time_read' =
       [start_time_read EXCEPT ![t] =
          log_operation_end_start_time(operation_start_times,
                                       start_time_writer, log_op[t])]
  /\ operation_start_times' =
       log_operation_end_times(operation_start_times, log_op[t])
  /\ start_time_writer' = log_operation_end_writer(start_time_writer, log_op[t])
  /\ UNCHANGED <<prod, genvars, errvars, groundvars, chatvars,
                 gemini_pc, gemini_args, gemini_config, depth_before,
                 gemini_response, gemini_result, current_depth, log_op>>

NextLog ==
  \/ \E t \in Threads, operation_name \in OperationNames :
        LogStart(t, operation_name)
  \/ \E t \in Threads : LogEnd(t)

SpecLog == InitLog /\ [][NextLog]_vars

----------------------------------------------------------------------------
(* A video request whose re-fetches all return and whose backend reports   *)
(* done at the MaxPolls-th re-fetch at the latest; every step of the       *)
(* sequential code is taken once control has reached it                    *)

PollOutcomes(ver) ==
  { Outcome(NoExc, <<>>, h) : h \in {g \in Handles(ver) :
                                        ver < MaxPolls \/ g.done} }

NextPoll ==
  \/ \E model_name \in {"None", VEO_2}, client_ok \in BOOLEAN :
        VideoBegin(model_name, NoParts, RATIO_16_9, client_ok)
  \/ \E out \in SubmitOutcomes : VideoSubmit(out)
  \/ VideoPollTest
  \/ \E out \in PollOutcomes(gets + 1) : VideoRefetch(out)
  \/ VideoComplete

SpecPoll ==
  /\ Init
  /\ [][NextPoll]_vars
  /\ WF_vars(VideoPollTest)
  /\ WF_vars(\E out \in PollOutcomes(gets + 1) : VideoRefetch(out))
  /\ WF_vars(VideoComplete)

----------------------------------------------------------------------------
(* extract_grounding_metadata: a response, and the calls made on it *)

WebSearchQueries == { <<>>, <<"query1">>, <<"query1", "query2">> }

ChunkA == GroundingChunk(TRUE, "title1", "uri1")
ChunkB == GroundingChunk(TRUE, "title2", "uri2")
ChunkNoWeb == GroundingChunk(FALSE, "None", "None")

GroundingChunks ==
  { <<>>, <<ChunkA>>, <<ChunkNoWeb>>, <<ChunkA, ChunkB>>,
    <<ChunkA, ChunkNoWeb, ChunkB>> }

GroundingMetadatas ==
  { NoGroundingMetadata }
  \cup { GroundingMetadata(q, c) : q \in WebSearchQueries, c \in GroundingChunks }

GroundedResponses ==
  { GroundedResponse(<<>>) }
  \cup { GroundedResponse(<<m>>) : m \in GroundingMetadatas }
  \cup { GroundedResponse(<<m, GroundingMetadata(<<"query2">>, <<ChunkB>>)>>) :
           m \in GroundingMetadatas }

InitGrounding ==
  /\ prod \in BOOLEAN
  /\ GenerationIdle
  /\ errors = <<>>
  /\ GeminiIdle
  /\ grounding_response \in GroundedResponses
  /\ extractions = <<>>
  /\ ChatIdle
  /\ LogIdle

(* A caller runs extract_grounding_metadata(response) *)
ExtractGrounding ==
  /\ Len(extractions) < MaxExtractions
  /\ LET x == extract_grounding_metadata(grounding_response) IN
       /\ extractions' = Append(extractions,
                                [arg |-> grounding_response, raised |-> x.raised,
                                 result |-> x.result])
       /\ grounding_response' = x.response
  /\ UNCHANGED <<prod, genvars, errvars, gemvars, chatvars, logvars>>

NextGrounding == ExtractGrounding

SpecGrounding == InitGrounding /\ [][NextGrounding]_vars

----------------------------------------------------------------------------
(* Properties *)

IsRetriable(e) ==
  e.cls \in RETRIABLE_RESPONSE_ERRORS \/ Contains(e.text, "RESOURCE_EXHAUSTED")

RaisedRetriable(c) == c.out.raised # NoExc /\ IsRetriable(c.out.raised)

RaisedNonRetriable(c) == c.out.raised # NoExc /\ ~IsRetriable(c.out.raised)

ReturnedEmpty(c) == c.out.raised = NoExc /\ c.out.images = <<>>

(* The call produced a usable value: an image with bytes, or a handle *)
Succeeded(c) ==
  /\ c.out.raised = NoExc
  /\ \/ req.kind = "video"
     \/ req.kind = "image" /\ c.out.images # <<>> /\ c.out.images[1].has_bytes

LastCall == calls[Len(calls)]

InOrder == \A k \in 1..Len(calls) : k <= Len(fall_backs) /\ calls[k].model = fall_backs[k]

(* The request ended in the checks on a completed operation *)
Completed ==
  /\ pc = "done"
  /\ req.kind = "video"
  /\ ~operation.is_none
  /\ operation.ver = gets

(* C1: in both fallback loops, when candidates 1..N-1 raise retriable      *)
(* errors and candidate N succeeds, exactly N vendor calls are made, one   *)
(* per candidate in chain order and none after N, and the caller gets the  *)
(* result built from candidate N's output (the image's bytes and mime      *)
(* type; the handle of candidate N's submission is the one polled and      *)
(* checked).                                                               *)
C1_StopsAtFirstSuccess ==
  \A n \in 1..Len(calls) :
    ((\A k \in 1..(n - 1) : RaisedRetriable(calls[k])) /\ Succeeded(calls[n]))
    => /\ Len(calls) = n
       /\ InOrder
       /\ pc \notin {"image_loop", "video_loop"}
       /\ req.kind = "image" =>
            LET g == calls[n].out.images[1] IN
            /\ pc = "done"
            /\ result.kind = "return"
            /\ result.bytes = g.image_bytes
            /\ result.mime = (IF g.mime_type = "None" THEN "image/png"
                              ELSE g.mime_type)
       /\ req.kind = "video" =>
            /\ gets = 0 => operation = calls[n].out.op
            /\ (pc = "done" /\ gets = 0) =>
                 /\ calls[n].out.op.done
                 /\ result = CheckResponse(calls[n].out.op)

C1_Witness ==
  /\ pc = "done"
  /\ req.kind = "video"
  /\ Len(calls) = 3
  /\ RaisedRetriable(calls[1])
  /\ RaisedRetriable(calls[2])
  /\ Succeeded(calls[3])
  /\ gets = 0
  /\ result.kind = "return"

(* C2: in the image loop, when every candidate raises a retriable error,   *)
(* the error raised is get_opal_adk_error of the last candidate's          *)
(* exception.                                                              *)
C2_ImageRaisesLastClassified ==
  (/\ pc = "done"
   /\ req.kind = "image"
   /\ Len(calls) = Len(fall_backs)
   /\ \A k \in 1..Len(calls) : RaisedRetriable(calls[k]))
  => result = Raise(get_opal_adk_error(LastCall.out.raised, NoExc))

C2_Witness ==
  /\ pc = "done"
  /\ req.kind = "image"
  /\ Len(calls) = 2
  /\ calls[1].out.raised.cls = "ServerError"
  /\ calls[2].out.raised.cls = "TooManyRequests"
  /\ result.kind = "raise"
  /\ result.err.error_code = UNKNOWN

(* C3 as stated: in the video loop, when every candidate's submission      *)
(* raises a retriable error, the error raised is the classification of     *)
(* the last candidate's exception.                                         *)
C3_VideoRaisesLastClassified ==
  (/\ pc = "done"
   /\ req.kind = "video"
   /\ Len(calls) = Len(fall_backs)
   /\ \A k \in 1..Len(calls) : RaisedRetriable(calls[k]))
  => LET c == get_opal_adk_error(LastCall.out.raised, NoExc) IN
     /\ result.kind = "raise"
     /\ result.err.error_code = c.error_code
     /\ result.err.status_message = c.status_message

(* C3 amended: in the video loop, when every candidate's submission raises *)
(* a retriable error, the error raised is the fixed OpalAdkError INTERNAL  *)
(* 'Failed to initiate video request.' with details 'Internal error        *)
(* occurred.', whatever the candidates' exceptions were.                   *)
C3_VideoRaisesFailedToInitiate ==
  (/\ pc = "done"
   /\ req.kind = "video"
   /\ Len(calls) = Len(fall_backs)
   /\ \A k \in 1..Len(calls) : RaisedRetriable(calls[k]))
  => /\ result.kind = "raise"
     /\ IsOpalAdkError(result.err)
     /\ result.err.error_code = INTERNAL
     /\ result.err.status_message = <<"Failed to initiate video request.">>
     /\ result.err.details = <<"Internal error occurred.">>

C3_Witness ==
  /\ pc = "done"
  /\ req.kind = "video"
  /\ Len(calls) = 3
  /\ \A k \in 1..3 : RaisedRetriable(calls[k])
  /\ calls[3].out.raised.cls = "ClientError"
  /\ calls[3].out.raised.code = RESOURCE_EXHAUSTED
  /\ result.kind = "raise"

(* C4: in both fallback loops, a non-retriable failure of a candidate's    *)
(* vendor call raises an OpalAdkError at once; no later candidate is       *)
(* called.                                                                 *)
C4_NonRetriableStopsTheChain ==
  \A k \in 1..Len(calls) :
    RaisedNonRetriable(calls[k])
    => /\ k = Len(calls)
       /\ pc = "done"
       /\ result.kind = "raise"
       /\ IsOpalAdkError(result.err)

C4_Witness ==
  /\ pc = "done"
  /\ req.kind = "video"
  /\ Len(fall_backs) = 3
  /\ Len(calls) = 2
  /\ RaisedRetriable(calls[1])
  /\ RaisedNonRetriable(calls[2])
  /\ result.kind = "raise"

(* C5 as stated: when either fallback loop stops on a non-retriable       *)
(* failure e, the error raised carries the status code and status message  *)
(* that get_opal_adk_error assigns to e.                                   *)
C5_NonRetriableRaisedClassified ==
  (pc = "done" /\ calls # <<>> /\ RaisedNonRetriable(LastCall))
  => LET e == LastCall.out.raised
         c == get_opal_adk_error(e, e)
     IN /\ result.kind = "raise"
        /\ result.err.error_code = c.error_code
        /\ result.err.status_message = c.status_message

(* C5 amended: when the image loop stops on a non-retriable failure e the  *)
(* error raised is get_opal_adk_error(e); when the video loop stops on a   *)
(* non-retriable failure the error raised is the fixed OpalAdkError        *)
(* INTERNAL 'Failed to initiate video request.' with details 'Internal     *)
(* error occurred.', whatever e is.                                        *)
C5_ImageClassifiedVideoFixed ==
  (pc = "done" /\ calls # <<>> /\ RaisedNonRetriable(LastCall))
  => LET e == LastCall.out.raised IN
     /\ result.kind = "raise"
     /\ IsOpalAdkError(result.err)
     /\ req.kind = "image" =>
          /\ result.err = get_opal_adk_error(e, e)
          /\ e.cls = "ClientError" =>
               /\ result.err.error_code = INTERNAL
               /\ result.err.status_message = GENERIC_MODEL_ERROR_MESSAGE
          /\ e.cls = "ValueError" =>
               /\ result.err.error_code = UNKNOWN
               /\ result.err.status_message = GENERIC_ERROR_MESSAGE
     /\ req.kind = "video" =>
          /\ result.err.error_code = INTERNAL
          /\ result.err.status_message = <<"Failed to initiate video request.">>
          /\ result.err.details = <<"Internal error occurred.">>

C5_Witness ==
  /\ pc = "done"
  /\ req.kind = "image"
  /\ Len(calls) = 2
  /\ RaisedRetriable(calls[1])
  /\ RaisedNonRetriable(calls[2])
  /\ calls[2].out.raised.cls = "ClientError"
  /\ result.kind = "raise"
  /\ result.err.error_code = INTERNAL

(* C6: in the image loop, when every candidate returns an empty result     *)
(* and none raises, one vendor call is made per candidate and then an      *)
(* OpalAdkError INTERNAL 'No images generated.' with non-empty details is  *)
(* raised.                                                                 *)
C6_AllEmptyRaisesGeneric ==
  (/\ req.kind = "image"
   /\ calls # <<>>
   /\ \A k \in 1..Len(calls) : ReturnedEmpty(calls[k]))
  => /\ InOrder
     /\ pc = "image_loop" => Len(calls) < Len(fall_backs)
     /\ pc = "done" =>
          /\ Len(calls) = Len(fall_backs)
          /\ result.kind = "raise"
          /\ IsOpalAdkError(result.err)
          /\ result.err.error_code = INTERNAL
          /\ result.err.status_message = <<"No images generated.">>
          /\ result.err.details # EmptyStr

C6_Witness ==
  /\ pc = "done"
  /\ req.kind = "image"
  /\ Len(calls) = 2
  /\ ReturnedEmpty(calls[1])
  /\ ReturnedEmpty(calls[2])
  /\ result.kind = "raise"

(* Position of the first occurrence of x in s *)
FirstIndex(s, x) == CHOOSE i \in 1..Len(s) : s[i] = x /\ \A j \in 1..(i - 1) : s[j] # x

(* C7: the video chain built from [model_name, VEO_3, VEO_3_FAST] is       *)
(* deduplicated preserving first occurrence: it is non-empty, starts with  *)
(* the preferred model, holds no model twice, holds exactly the models of  *)
(* the list in the order of their first occurrence ([A, A, B] gives        *)
(* [A, B]), and no model receives more than one submission call.           *)
C7_ChainDeduplicated ==
  req.kind = "video"
  => LET raw == <<req.model_name, VEO_3, VEO_3_FAST>> IN
     /\ fall_backs # <<>>
     /\ fall_backs[1] = req.model_name
     /\ \A i, j \in 1..Len(fall_backs) : fall_backs[i] = fall_backs[j] => i = j
     /\ {fall_backs[i] : i \in 1..Len(fall_backs)} = {raw[i] : i \in 1..3}
     /\ \A i, j \in 1..Len(fall_backs) :
          i < j => FirstIndex(raw, fall_backs[i]) < FirstIndex(raw, fall_backs[j])
     /\ req.model_name = VEO_3 => fall_backs = <<VEO_3, VEO_3_FAST>>
     /\ \A i, j \in 1..Len(calls) : calls[i].model = calls[j].model => i = j

C7_Witness ==
  /\ pc = "done"
  /\ req.kind = "video"
  /\ req.model_name = VEO_3
  /\ fall_backs = <<VEO_3, VEO_3_FAST>>
  /\ Len(calls) = 2
  /\ RaisedRetriable(calls[1])
  /\ RaisedRetriable(calls[2])

(* C8: after a successful submission the checks on the operation run only  *)
(* once done was observed true; while done is false the loop sleeps and    *)
(* re-fetches, so the number of operations.get calls equals the number of  *)
(* not-done observations (zero when the submitted operation is already     *)
(* done), and the checks use the most recently fetched handle.             *)
C8_ChecksOnlyAfterDone ==
  /\ pc \in {"video_poll", "video_check"} =>
       gets = notDone /\ operation.ver = gets
  /\ pc = "video_sleep" =>
       notDone = gets + 1 /\ ~operation.done /\ operation.ver = gets
  /\ pc = "video_check" => operation.done
  /\ (pc = "done" /\ req.kind = "video" /\ ~operation.is_none) =>
       /\ gets = notDone
       /\ LastCall.out.op.done => gets = 0
       /\ (result.kind = "return" \/ IsOpalAdkError(result.err)) =>
            /\ operation.done
            /\ operation.ver = gets
            /\ result = CheckResponse(operation)

C8_Witness ==
  /\ Completed
  /\ gets = 2
  /\ notDone = 2
  /\ operation.done
  /\ result.kind = "return"

(* C9 as stated: when the completed operation carries an error payload,    *)
(* the error raised has the payload's code (INTERNAL if the payload omits  *)
(* one) and its message equals the payload's message verbatim.             *)
C9_MessageVerbatim ==
  (Completed /\ ErrorTruthy(operation.error) /\ operation.error.has_message)
  => /\ result.kind = "raise"
     /\ result.err.error_code =
          (IF operation.error.has_code THEN operation.error.code ELSE INTERNAL)
     /\ result.err.status_message = operation.error.message

(* C9 amended: when the completed operation carries an error payload, the  *)
(* error raised has the payload's code (INTERNAL if the payload omits      *)
(* one), its details equal the payload's message verbatim ('Unknown        *)
(* error' if the payload omits one), and its status message is 'No videos  *)
(* generated: ' followed by that message and a full stop.                  *)
C9_DetailsVerbatim ==
  (Completed /\ ErrorTruthy(operation.error))
  => LET msg == IF operation.error.has_message THEN operation.error.message
                ELSE <<"Unknown error">>
     IN /\ result.kind = "raise"
        /\ IsOpalAdkError(result.err)
        /\ result.err.error_code =
             (IF operation.error.has_code THEN operation.error.code ELSE INTERNAL)
        /\ result.err.details = msg
        /\ result.err.status_message = <<"No videos generated: ">> \o msg \o <<".">>

C9_Witness ==
  /\ Completed
  /\ operation.error.has_code
  /\ operation.error.code = HTTP_BAD_REQUEST
  /\ operation.error.message = <<"bad prompt">>
  /\ result.kind = "raise"
  /\ result.err.error_code = HTTP_BAD_REQUEST
  /\ result.err.details = <<"bad prompt">>

(* The response of a completed operation yields no asset *)
NoAsset(response) ==
  \/ response.is_none
  \/ response.generated_videos = <<>>
  \/ ~response.generated_videos[1].has_video

(* C10: when a completed operation has no error and yields no asset but    *)
(* its response lists filter reasons, the error raised has status code     *)
(* INVALID_ARGUMENT and details equal to the first filter reason, both     *)
(* when generated_videos is empty or absent and when its first entry       *)
(* carries no video.                                                       *)
C10_FilterReasonSurfaced ==
  (/\ Completed
   /\ ~ErrorTruthy(operation.error)
   /\ NoAsset(operation.response)
   /\ operation.response.rai_media_filtered_reasons # <<>>)
  => /\ result.kind = "raise"
     /\ result.err.error_code = INVALID_ARGUMENT
     /\ result.err.details = operation.response.rai_media_filtered_reasons[1]

(* C11 as stated: for a completed operation, an error payload raises an    *)
(* OpalAdkError and returns no asset; otherwise a response with a          *)
(* non-empty generated_videos list gives exactly the (video_bytes,         *)
(* mime_type) of its first entry; otherwise, with no asset and no filter   *)
(* reason, an INTERNAL error is raised.                                    *)
C11_FirstEntryReturned ==
  Completed =>
    LET r == operation.response IN
    /\ ErrorTruthy(operation.error) =>
         result.kind = "raise" /\ IsOpalAdkError(result.err)
    /\ (~ErrorTruthy(operation.error) /\ ~r.is_none /\ r.generated_videos # <<>>) =>
         result = Return(r.generated_videos[1].video_bytes,
                         r.generated_videos[1].mime_type)
    /\ (~ErrorTruthy(operation.error) /\ NoAsset(r)
        /\ r.rai_media_filtered_reasons = <<>>) =>
         result.kind = "raise" /\ result.err.error_code = INTERNAL

(* C11 amended: for a completed operation, an error payload raises an      *)
(* OpalAdkError and returns no asset even if the response holds videos;    *)
(* otherwise, if generated_videos is non-empty and its first entry carries *)
(* a video, the result is exactly that entry's (video_bytes, mime_type),   *)
(* whatever the later entries are; otherwise (no response, an empty list,  *)
(* or a first entry without a video, even when a later entry has one) an   *)
(* error is raised, and it is INTERNAL when there is no filter reason.     *)
C11_FirstEntryWithVideoReturned ==
  Completed =>
    LET r == operation.response IN
    /\ ErrorTruthy(operation.error) =>
         /\ result.kind = "raise"
         /\ IsOpalAdkError(result.err)
         /\ result.bytes = "None"
    /\ (~ErrorTruthy(operation.error) /\ ~NoAsset(r)) =>
         result = Return(r.generated_videos[1].video_bytes,
                         r.generated_videos[1].mime_type)
    /\ (~ErrorTruthy(operation.error) /\ NoAsset(r)) =>
         /\ result.kind = "raise"
         /\ IsOpalAdkError(result.err)
         /\ r.rai_media_filtered_reasons = <<>> =>
              result.err.error_code = INTERNAL

C11_Witness ==
  /\ Completed
  /\ ErrorTruthy(operation.error)
  /\ ~NoAsset(operation.response)
  /\ result.kind = "raise"
  /\ result.err.details = <<"quota">>

(* The parts of ps that have inline data, in order *)
WithInlineData(ps) == SelectSeq(ps, LAMBDA p : p.has_inline)

C13_OnlyOpalAdkErrorLeaves ==
  result.kind = "raise" => IsOpalAdkError(result.err)

(* C17: when every candidate of a fallback chain fails with an error the   *)
(* loop treats as retriable (by exception type or by the                   *)
(* 'RESOURCE_EXHAUSTED' marker in its text), the error surfaced to the     *)
(* caller has status code RESOURCE_EXHAUSTED or INTERNAL.                  *)
C17_ExhaustedSurfacesOverloadCode ==
  (/\ pc = "done"
   /\ req.kind \in {"image", "video"}
   /\ Len(calls) = Len(fall_backs)
   /\ \A k \in 1..Len(calls) : RaisedRetriable(calls[k]))
  => /\ result.kind = "raise"
     /\ result.err.error_code \in {RESOURCE_EXHAUSTED, INTERNAL}

(* C14: get_opal_adk_error of an OpalAdkError, a ChatError included,       *)
(* returns it with no field changed, and get_opal_adk_error applied to a   *)
(* result of get_opal_adk_error returns that result, whatever exception    *)
(* was classified first.                                                   *)
C14_ClassifierIdempotent ==
  \A i \in DOMAIN errors :
    /\ (errors[i].classified # NoExc /\ IsOpalAdkError(errors[i].error)) =>
         errors[i].classified = errors[i].error
    /\ errors[i].classified # NoExc => IsOpalAdkError(errors[i].classified)
    /\ errors[i].reclassified # NoExc =>
         errors[i].reclassified = errors[i].classified

C14_Witness ==
  /\ errors # <<>>
  /\ errors[1].error.cls = "ChatError"
  /\ errors[1].classified = errors[1].error
  /\ errors[2].error.cls = "ClientError"
  /\ errors[2].classified # NoExc
  /\ errors[2].reclassified = errors[2].classified

(* C15: get_opal_adk_error of an exception that is not an OpalAdkError     *)
(* gives one of four results: a client error with code RESOURCE_EXHAUSTED  *)
(* gives RESOURCE_EXHAUSTED with the higher-load message, any other client *)
(* error and any server error give INTERNAL with the generic model-error   *)
(* message, and anything else gives UNKNOWN with the generic               *)
(* internal-error message.                                                 *)
C15_FourClassifications ==
  \A i \in DOMAIN errors :
    LET e == errors[i].error
        c == errors[i].classified
    IN (c # NoExc /\ ~IsOpalAdkError(e)) =>
       /\ c.cls = "OpalAdkError"
       /\ c.details = EmptyStr
       /\ (e.cls = "ClientError" /\ e.code = RESOURCE_EXHAUSTED) =>
            /\ c.error_code = RESOURCE_EXHAUSTED
            /\ c.status_message = HIGHER_LOAD_MESSAGE
       /\ (e.cls = "ClientError" /\ e.code # RESOURCE_EXHAUSTED) =>
            /\ c.error_code = INTERNAL
            /\ c.status_message = GENERIC_MODEL_ERROR_MESSAGE
       /\ e.cls = "ServerError" =>
            /\ c.error_code = INTERNAL
            /\ c.status_message = GENERIC_MODEL_ERROR_MESSAGE
       /\ e.cls \notin {"ClientError", "ServerError"} =>
            /\ c.error_code = UNKNOWN
            /\ c.status_message = GENERIC_ERROR_MESSAGE

C15_Witness ==
  /\ errors # <<>>
  /\ errors[1].error.cls = "ClientError"
  /\ errors[1].error.code = RESOURCE_EXHAUSTED
  /\ errors[1].classified.error_code = RESOURCE_EXHAUSTED
  /\ errors[1].classified.status_message = HIGHER_LOAD_MESSAGE
  /\ errors[2].error.cls = "TooManyRequests"
  /\ errors[2].classified.error_code = UNKNOWN

(* The keys of a JSON object text, and how many items it has *)
JsonKeyPositions(t) == {k \in 3..Len(t) : t[k] = ": " /\ t[k - 1] = "\""}

JsonKeys(t) == {t[k - 2] : k \in JsonKeyPositions(t)}

(* C16: external_message() serializes the three keys code, message and     *)
(* details and nothing else, and two errors with the same error_code,      *)
(* status_message and details give the same output (or both fail on the    *)
(* code's name), whatever their internal_details and logged messages are,  *)
(* in production and outside it.                                           *)
C16_ExternalMessageHidesInternals ==
  \A i, j \in DOMAIN errors :
    LET a == errors[i].classified
        b == errors[j].classified
        out == errors[i].external
    IN /\ (out # NotCalled /\ out.raised = NoExc) =>
            /\ JsonKeys(out.text) = {"code", "message", "details"}
            /\ Cardinality(JsonKeyPositions(out.text)) = 3
       /\ (/\ out # NotCalled
           /\ errors[j].external # NotCalled
           /\ a.error_code = b.error_code
           /\ a.status_message = b.status_message
           /\ a.details = b.details) =>
            errors[j].external = out

C16_Witness ==
  /\ errors # <<>>
  /\ prod
  /\ errors[1].classified.error_code = errors[2].classified.error_code
  /\ errors[1].classified.status_message = errors[2].classified.status_message
  /\ errors[1].classified.details = errors[2].classified.details
  /\ errors[1].classified.internal_details # errors[2].classified.internal_details
  /\ errors[1].classified.text # errors[2].classified.text
  /\ errors[1].external.raised = NoExc
  /\ errors[1].external # NotCalled
  /\ errors[2].external = errors[1].external

HasRecitation(resp) ==
  \E k \in DOMAIN resp.candidates : resp.candidates[k].finish_reason = "RECITATION"

(* C18: in gemini_generate_images, whenever a candidate of the response    *)
(* has the recitation finish reason, the call ends in an OpalAdkError and  *)
(* hands back no image: the recitation check stands before the extraction  *)
(* of the parts, and the only exits before it are errors.                  *)
C18_RecitationBlocksMedia ==
  (gemini_pc = "done" /\ ~gemini_response.is_none /\ HasRecitation(gemini_response))
  => /\ gemini_result.kind = "raise"
     /\ IsOpalAdkError(gemini_result.err)
     /\ gemini_result.err.error_code = INTERNAL
     /\ gemini_result.images = <<>>

C18_Witness ==
  /\ gemini_pc = "done"
  /\ Len(gemini_response.candidates) = 2
  /\ gemini_response.candidates[1].finish_reason = "STOP"
  /\ gemini_response.candidates[1].content = Content(<<ImagePng>>)
  /\ gemini_response.candidates[2].finish_reason = "RECITATION"
  /\ gemini_result.kind = "raise"
  /\ gemini_result.err.status_message = RECITATION_MESSAGE

(* All tokens of s occur in t *)
Carries(t, s) == \A k \in DOMAIN s : Contains(t, s[k])

(* C19: in gemini_generate_images, a response (free of recitation) whose   *)
(* first candidate has content parts none of which carries inline data     *)
(* raises an OpalAdkError INTERNAL 'No images generated.'; its details are *)
(* empty when the parts hold no text and otherwise contain the text        *)
(* returned, and its internal_details contain that text too, in            *)
(* production and outside it.                                              *)
C19_NoImagesCarriesText ==
  (/\ gemini_pc = "done"
   /\ ~gemini_response.is_none
   /\ gemini_response.candidates # <<>>
   /\ ~HasRecitation(gemini_response)
   /\ ~gemini_response.candidates[1].content.is_none
   /\ gemini_response.candidates[1].content.parts # <<>>
   /\ \A k \in DOMAIN gemini_response.candidates[1].content.parts :
        ~gemini_response.candidates[1].content.parts[k].has_inline)
  => LET parts == gemini_response.candidates[1].content.parts
         texts == {parts[k].text : k \in {j \in DOMAIN parts : Truthy(parts[j].text)}}
     IN /\ gemini_result.kind = "raise"
        /\ IsOpalAdkError(gemini_result.err)
        /\ gemini_result.err.error_code = INTERNAL
        /\ gemini_result.err.status_message = <<"No images generated.">>
        /\ texts = {} => gemini_result.err.details = EmptyStr
        /\ \A t \in texts :
             /\ Carries(gemini_result.err.details, t)
             /\ Carries(gemini_result.err.internal_details, t)

RetriableCalls(n) == {k \in 1..n : RaisedRetriable(calls[k])}

Max(S) == CHOOSE x \in S : \A y \in S : y <= x

(* C27: in the image loop an empty result leaves last_exception as it was  *)
(* and the loop goes on: when every candidate raised a retriable error or  *)
(* returned an empty result, the error raised is get_opal_adk_error of the *)
(* most recent retriable exception, also when later candidates returned    *)
(* empty, and it is the generic 'No images generated.' error only when no  *)
(* candidate raised.                                                       *)
C27_EmptyKeepsLastException ==
  (/\ req.kind = "image"
   /\ calls # <<>>
   /\ \A k \in 1..Len(calls) : RaisedRetriable(calls[k]) \/ ReturnedEmpty(calls[k]))
  => LET raisers == RetriableCalls(Len(calls)) IN
     /\ last_exception = (IF raisers = {} THEN NoExc
                          ELSE calls[Max(raisers)].out.raised)
     /\ pc = "image_loop" => Len(calls) < Len(fall_backs)
     /\ pc = "done" =>
          /\ Len(calls) = Len(fall_backs)
          /\ raisers # {} =>
               result = Raise(get_opal_adk_error(calls[Max(raisers)].out.raised,
                                                 NoExc))
          /\ raisers = {} => result = Raise(NoImagesGenerated)
          /\ (result.kind = "raise"
              /\ result.err.status_message = <<"No images generated.">>)
             => raisers = {}

C27_Witness ==
  /\ pc = "done"
  /\ req.kind = "image"
  /\ Len(calls) = 2
  /\ calls[1].out.raised.cls = "ServerError"
  /\ ReturnedEmpty(calls[2])
  /\ result.kind = "raise"
  /\ result.err.error_code = INTERNAL
  /\ result.err.status_message = GENERIC_MODEL_ERROR_MESSAGE

(* C25: every OpalAdkError the generation layer raises has a status code   *)
(* of the set OK, UNKNOWN, INVALID_ARGUMENT, FAILED_PRECONDITION,          *)
(* RESOURCE_EXHAUSTED, UNAVAILABLE, INTERNAL, and external_message() of it *)
(* returns, the error built from a completed video operation's error       *)
(* payload included.                                                       *)
C25_StatusCodeInFixedSet ==
  (result.kind = "raise" /\ IsOpalAdkError(result.err))
  => /\ result.err.error_code \in
          {k - 1 : k \in {j \in DOMAIN CodeNames :
                          CodeNames[j] \in {"OK", "UNKNOWN", "INVALID_ARGUMENT",
                                            "FAILED_PRECONDITION",
                                            "RESOURCE_EXHAUSTED", "UNAVAILABLE",
                                            "INTERNAL"}}}
     /\ external_message(result.err).raised = NoExc

(* 'title: uri' and a newline for each citation of ws, in order *)
RECURSIVE TitleUriLines(_)
TitleUriLines(ws) ==
  IF ws = <<>> THEN <<>>
  ELSE <<ws[1].title, ": ", ws[1].uri, "\n">> \o TitleUriLines(Tail(ws))

(* C29: with grounding metadata present, extract_grounding_metadata gives  *)
(* at most two blocks: the search-queries block exactly when               *)
(* web_search_queries is non-empty, and after it the sources block, which  *)
(* lists 'title: uri' for exactly the citations that carry a web           *)
(* reference, in order, and is there only when at least one citation       *)
(* carries a web reference.                                                *)
C29_SourcesOnlyWithWeb ==
  \A k \in DOMAIN extractions :
    LET resp == extractions[k].arg IN
    (resp.candidates # <<>> /\ ~resp.candidates[1].is_none) =>
      LET md == resp.candidates[1]
          with_web == SelectSeq(md.grounding_chunks, LAMBDA c : c.has_web)
          queries == IF md.web_search_queries # <<>>
                     THEN <<TextContent(<<"\n\n\nRelated Google Search queries: ">>
                                        \o JoinComma(md.web_search_queries))>>
                     ELSE <<>>
          sources == IF with_web # <<>>
                     THEN <<TextContent(<<"\n\nSources:\n">>
                                        \o TitleUriLines(with_web))>>
                     ELSE <<>>
      IN /\ extractions[k].raised = NoExc
         /\ Len(extractions[k].result) <= 2
         /\ extractions[k].result = queries \o sources

(* C21: the aspect ratio a caller passes into a request is reproduced      *)
(* unchanged in the aspect-ratio field of the vendor config on every       *)
(* request path: '4:3' arrives as '4:3', and so does every other member,   *)
(* with gemini_generate_images, generate_image_via_genai_api and           *)
(* generate_video_via_vertex_ai alike                                      *)
AspectRatioText ==
  [a \in AspectRatio |->
     IF a = "RATIO_16_9" THEN "16:9" ELSE IF a = "RATIO_1_1" THEN "1:1"
     ELSE IF a = "RATIO_3_4" THEN "3:4" ELSE IF a = "RATIO_4_3" THEN "4:3"
     ELSE "9:16"]

C21_AspectRatioReproduced ==
  /\ \A k \in 1..Len(calls) :
       calls[k].aspect_ratio = AspectRatioText[req.aspect_ratio]
  /\ gemini_pc # "idle" =>
       gemini_config.aspect_ratio = AspectRatioText[gemini_args.aspect_ratio]

(* C30: every exit path of gemini_generate_images (success, vendor-call    *)
(* failure, empty response, recitation rejection, client-creation failure) *)
(* pairs its log_operation_start with one log_operation_end: when the call *)
(* is over, the thread's current_depth is what it was before the call, the *)
(* operation has no start time left, and the depth is never negative       *)
C30_DepthRestored ==
  /\ current_depth >= 0
  /\ gemini_pc = "done" =>
       /\ current_depth = depth_before
       /\ GEMINI_OPERATION \notin operation_start_times

(* The prefix a ChatError construction uses *)
PrefixOf(w) ==
  IF w.chat_prefix \in {NoneStr, EmptyStr} THEN GENERIC_CHAT_BASED_PREFIX
  ELSE w.chat_prefix

(* How many times the piece tok occurs in the str s *)
RECURSIVE Occurrences(_, _)
Occurrences(tok, s) ==
  IF s = <<>> THEN 0
  ELSE (IF Head(s) = tok THEN 1 ELSE 0) + Occurrences(tok, Tail(s))

C23_PrefixAccumulates ==
  \A k \in 1..Len(wraps) :
    LET w == wraps[k]
        classified == get_opal_adk_error(w.base_error, NoExc)
    IN /\ w.full_chat_message = NoneStr =>
            /\ Occurrences(PrefixOf(w)[1], w.error.details) =
                 Occurrences(PrefixOf(w)[1], classified.details) + 1
            /\ w.error.details # w.base_error.details
       /\ (\A j \in 1..k : /\ wraps[j].full_chat_message = NoneStr
                            /\ wraps[j].chat_prefix \in {NoneStr, EmptyStr}) =>
            Occurrences(GENERIC_CHAT_BASED_PREFIX[1], w.error.details) =
              k + Occurrences(GENERIC_CHAT_BASED_PREFIX[1],
                              get_opal_adk_error(chat_base, NoExc).details)

C23_Witness ==
  /\ Len(wraps) = 3
  /\ chat_base.cls = "ValueError"
  /\ \A k \in 1..3 : /\ wraps[k].chat_prefix = NoneStr
                      /\ wraps[k].full_chat_message = NoneStr
  /\ wraps[2].base_error.cls = "ChatError"
  /\ Occurrences(GENERIC_CHAT_BASED_PREFIX[1], wraps[3].error.details) = 3

(* C24: get_error_as_chat_message(e) returns a str for every exception e:  *)
(* status_message, a newline and details in production; status_message, a  *)
(* newline and internal_details elsewhere, for every OpalAdkError however   *)
(* it was constructed and for every other exception                        *)
C24_ChatMessageIsString ==
  as_chat_message # NoChatMessage =>
    LET classified == get_opal_adk_error(as_chat_message.error, NoExc)
        out == as_chat_message.out
    IN /\ out.raised = NoExc
       /\ out.text # NoneStr
       /\ prod => out.text = classified.status_message \o <<"\n">>
                               \o classified.details
       /\ ~prod => out.text[1] = classified.status_message[1]

(* C26: two requests running on different threads share no timing or depth *)
(* data: the start time a request's log_operation_end takes is the one its *)
(* own log_operation_start stored, also when both requests run an          *)
(* operation of the same name, and the start time of a running request is  *)
(* still the one it stored                                                 *)
C26_LoggingIsolated ==
  \A t \in Threads :
    /\ log_pc[t] = "done" => start_time_read[t] = t
    /\ log_pc[t] = "running" =>
         /\ log_op[t] \in operation_start_times
         /\ start_time_writer[log_op[t]] = t

(* C28: the poll loop has no deadline, attempt limit or cancellation: as   *)
(* long as the handle is not done the call neither returns nor raises and  *)
(* goes on to the next re-fetch; once the backend reports done, every      *)
(* re-fetch having returned, the call ends with an asset or an             *)
(* OpalAdkError                                                            *)
C28_PollsUntilDone ==
  /\ [][(pc = "video_poll" /\ ~operation.done) =>
          (pc' = "video_sleep" /\ result' = NoResult)]_vars
  /\ [][pc = "video_sleep" =>
          (pc' = "video_poll" /\ gets' = gets + 1 /\ result' = NoResult)]_vars
  /\ (pc = "video_poll") ~>
       (/\ pc = "done"
        /\ operation.done
        /\ \/ result.kind = "return"
           \/ result.kind = "raise" /\ IsOpalAdkError(result.err))

C28_Witness ==
  /\ pc = "done"
  /\ gets = 2
  /\ notDone = 2
  /\ operation.done
  /\ result.kind = "return"
====
